---- MODULE Spec2Model ----
(***************************************************************************)
(* ESP8266 flasher (src/src/esp8266.cc): FlasherImpl::run / runLocked and  *)
(* the planning functions it calls (adjustSysParamsLocation,               *)
(* sanityCheckImages, mergeFlashLocked, dedupImages, verifyImages), with   *)
(* the flash-params helpers; and setOption and setFirmware called from     *)
(* another thread while run() executes (SpecConcurrent); and               *)
(* flashParamsFromString / flashSizeFromParams applied to strings of       *)
(* their own (SpecParams); and setFirmware called before run()             *)
(* (SpecFirmware).                                                         *)
(*                                                                         *)
(* A QByteArray is modelled symbolically: its length, its first (up to 4)  *)
(* bytes, and the identity of the content it was cut from together with    *)
(* the offset of the cut.  MD5 is modelled as collision free.              *)
(*                                                                         *)
(* Addresses, lengths and flash sizes are below 2^31 and flash sizes are   *)
(* at least kSystemParamsAreaSize, so the quint32 and int arithmetic of    *)
(* the code does not wrap and is written without a modulus.                *)
(***************************************************************************)
EXTENDS Integers, Sequences, FiniteSets, TLC

\* ------------------------------------------------------------ constants

\* const quint32 kSystemParamsAreaSize = 16 * 1024;
kSystemParamsAreaSize == 16384

\* ESPFlasherClient::kFlashSectorSize
kFlashSectorSize == 4096

\* ESPFlasherClient::kFlashBlockSize
kFlashBlockSize == 65536

\* const char kSystemParamsPartType[] = "sys_params";
kSystemParamsPartType == "sys_params"

\* flashSize_ = 512 * 1024;  // A safe default.
kDefaultFlashSize == 524288

\* if (flashSize_ > 4194304) flashSize_ = 4194304;
kMaxParamsFlashSize == 4194304

\* ---------------------------------------------------------------- bounds

\* Largest number of parts in a firmware bundle of the layout family.
MaxImages == 3

\* Largest number of failed ROM handshakes before the device answers.
MaxRomFailures == 2

\* -------------------------------------------------------------- helpers

Min(a, b) == IF a < b THEN a ELSE b

MinOf(S) == CHOOSE x \in S : \A y \in S : x <= y

RECURSIVE SortedSeq(_)
\* QMap iteration order / QMap::keys(): ascending keys.
SortedSeq(S) ==
  IF S = {} THEN <<>>
  ELSE LET m == MinOf(S) IN <<m>> \o SortedSeq(S \ {m})

\* QMap<ulong, Image>::keys()
Keys(m) == SortedSeq(DOMAIN m)

\* ----------------------------------------------------- QByteArray model

\* A byte array of length len whose first bytes are head, cut at offset
\* off out of the content named tag.
Data(len, head, tag, off) ==
  [len |-> len, head |-> head, tag |-> tag, off |-> off]

\* The first bytes of a part's data: magic, then zeros, cut to its length.
FirstBytes(magic, len) == SubSeq(<<magic, 0, 0, 0>>, 1, Min(len, 4))

\* QByteArray::mid(pos, n) for pos = 0 or pos beyond the first four bytes.
DataMid(d, pos, n) ==
  LET avail == IF pos >= d.len THEN 0 ELSE d.len - pos
      l == Min(n, avail)
  IN  Data(l,
           IF pos = 0 THEN SubSeq(d.head, 1, Min(l, Len(d.head))) ELSE <<>>,
           d.tag, d.off + pos)

\* QCryptographicHash::hash(data, Md5), collision free.
Md5(d) == <<"md5", d>>

\* What the device holds where it does not hold the host's bytes.
DeviceOther(len) == Data(len, <<>>, "device", 0)

\* struct Image { ulong addr; QByteArray data; QMap<QString, QVariant> attrs; }
Image(addr, data, type) ==
  [addr |-> addr, data |-> data, attrs |-> [type |-> type]]

\* -- flash params ------------------------------------------------------

\* const map<string, int> flashMode
flashMode == [qio |-> 0, qout |-> 1, dio |-> 2, dout |-> 3]

\* const map<string, int> flashSize; a key "<n>m<suffix>" is <<n, suffix>>.
flashSize ==
  (<<4, "">> :> 0) @@ (<<2, "">> :> 1) @@ (<<8, "">> :> 2) @@
  (<<16, "">> :> 3) @@ (<<32, "">> :> 4) @@ (<<16, "-c1">> :> 5) @@
  (<<32, "-c1">> :> 6) @@ (<<32, "-c2">> :> 7)

\* const map<int, int> flashSizeById
flashSizeById ==
  (0 :> 524288) @@ (1 :> 262144) @@ (2 :> 1048576) @@ (3 :> 2097152) @@
  (4 :> 4194304) @@ (5 :> 2097152) @@ (6 :> 4194304) @@ (7 :> 4194304)

\* const map<string, int> flashFreq; "80m" is 0xf.
flashFreq == ("40m" :> 0) @@ ("26m" :> 1) @@ ("20m" :> 2) @@ ("80m" :> 15)

StatusOK(v) == [ok |-> TRUE, value |-> v, code |-> "OK"]

StatusErr(code) == [ok |-> FALSE, value |-> 0, code |-> code]

\* The digits QString::toInt reads, with their values.
DigitOf ==
  ("0" :> 0) @@ ("1" :> 1) @@ ("2" :> 2) @@ ("3" :> 3) @@ ("4" :> 4) @@
  ("5" :> 5) @@ ("6" :> 6) @@ ("7" :> 7) @@ ("8" :> 8) @@ ("9" :> 9) @@
  ("a" :> 10) @@ ("b" :> 11) @@ ("c" :> 12) @@ ("d" :> 13) @@ ("e" :> 14) @@
  ("f" :> 15) @@ ("A" :> 10) @@ ("B" :> 11) @@ ("C" :> 12) @@ ("D" :> 13) @@
  ("E" :> 14) @@ ("F" :> 15)

\* The least int: -2^31.
IntMin == -2147483647 - 1

\* x / b rounded up, for b > 0.
CeilDiv(x, b) == (x \div b) + (IF x % b = 0 THEN 0 ELSE 1)

RECURSIVE Accumulate(_, _, _, _, _)
\* The digits from the i-th on accumulated onto acc in the given base, as a
\* number <= 0 (so that -2^31 is reached); ok is false once the number
\* leaves the range of int.
Accumulate(digits, base, i, acc, neg) ==
  IF i > Len(digits) THEN
    IF ~neg /\ acc = IntMin
    THEN [ok |-> FALSE, value |-> 0]
    ELSE [ok |-> TRUE, value |-> IF neg THEN acc ELSE -acc]
  ELSE LET d == DigitOf[digits[i]] IN
       IF acc < CeilDiv(IntMin + d, base)
       THEN [ok |-> FALSE, value |-> 0]
       ELSE Accumulate(digits, base, i + 1, acc * base - d, neg)

\* The sign removed.
Unsigned(text) ==
  IF Len(text) > 0 /\ text[1] \in {"-", "+"} THEN Tail(text) ELSE text

\* QString::toInt(&ok, 0) of a text given by its characters: an optional
\* sign, then "0x" and hexadecimal digits, or "0" and octal digits, or
\* decimal digits; ok is false for anything else and for a number outside
\* the range of int.
toInt(text) ==
  LET neg == Len(text) > 0 /\ text[1] = "-"
      body == Unsigned(text)
      hex == Len(body) >= 2 /\ body[1] = "0" /\ body[2] \in {"x", "X"}
      oct == ~hex /\ Len(body) >= 2 /\ body[1] = "0"
      base == IF hex THEN 16 ELSE IF oct THEN 8 ELSE 10
      digits == IF hex THEN SubSeq(body, 3, Len(body))
                ELSE IF oct THEN Tail(body) ELSE body
  IN  IF /\ Len(digits) > 0
         /\ \A i \in 1 .. Len(digits) :
              digits[i] \in DOMAIN DigitOf /\ DigitOf[digits[i]] < base
      THEN Accumulate(digits, base, 1, 0, neg)
      ELSE [ok |-> FALSE, value |-> 0]

\* flashParamsFromString(s): s is the list of its comma-separated parts. A
\* single part is given by its characters, for toInt to read; r & 0xffff
\* is r modulo 2^16 also for r < 0.  The three parts of a list are the
\* keys looked up in the maps; the three fields do not overlap, so the |
\* of them is their sum.
flashParamsFromString(parts) ==
  IF Len(parts) = 1 THEN
    LET r == toInt(parts[1]) IN
    IF ~r.ok THEN StatusErr("INVALID_ARGUMENT")
    ELSE StatusOK(r.value % 65536)
  ELSE IF Len(parts) = 3 THEN
    IF parts[1] \notin DOMAIN flashMode THEN StatusErr("INVALID_ARGUMENT")
    ELSE IF parts[2] \notin DOMAIN flashSize THEN StatusErr("INVALID_ARGUMENT")
    ELSE IF parts[3] \notin DOMAIN flashFreq THEN StatusErr("INVALID_ARGUMENT")
    ELSE StatusOK(flashMode[parts[1]] * 256 + flashSize[parts[2]] * 16
                  + flashFreq[parts[3]])
  ELSE StatusErr("INVALID_ARGUMENT")

\* flashSizeFromParams without the & 0xff.
flashSizeFromParamsMutant(flashParams) ==
  LET flashSizeId == flashParams \div 16
  IN  IF flashSizeId \notin DOMAIN flashSizeById
      THEN StatusErr("INVALID_ARGUMENT")
      ELSE StatusOK(flashSizeById[flashSizeId])

\* flashSizeFromParams(flashParams)
flashSizeFromParams(flashParams) ==
  LET flashSizeId == (flashParams % 256) \div 16
  IN  IF flashSizeId \notin DOMAIN flashSizeById
      THEN StatusErr("INVALID_ARGUMENT")
      ELSE StatusOK(flashSizeById[flashSizeId])

\* ------------------------------------------- adjustSysParamsLocation

\* const quint32 systemParamsBegin = flashSize - kSystemParamsAreaSize;
SystemParamsBegin(flashSz) == flashSz - kSystemParamsAreaSize

\* The move without image.addr = systemParamsBegin.
MoveImageMutant(imgs, key, newAddr) ==
  [k \in (DOMAIN imgs \ {key}) \cup {newAddr} |->
     IF k = newAddr THEN imgs[key] ELSE imgs[k]]

\* images_.erase(it); image.addr = systemParamsBegin;
\* images_[systemParamsBegin] = image;
MoveImage(imgs, key, newAddr) ==
  [k \in (DOMAIN imgs \ {key}) \cup {newAddr} |->
     IF k = newAddr THEN [imgs[key] EXCEPT !.addr = newAddr] ELSE imgs[k]]

RECURSIVE AdjustFrom(_, _, _, _)
\* The loop of adjustSysParamsLocation from the i-th key on: the first
\* sys_params image that is not at systemParamsBegin is moved, then return.
AdjustFrom(imgs, keys, i, flashSz) ==
  IF i > Len(keys) THEN imgs
  ELSE LET image == imgs[keys[i]] IN
       IF /\ image.attrs.type = kSystemParamsPartType
          /\ image.addr # SystemParamsBegin(flashSz)
       THEN MoveImage(imgs, keys[i], SystemParamsBegin(flashSz))
       ELSE AdjustFrom(imgs, keys, i + 1, flashSz)

adjustSysParamsLocation(imgs, flashSz) ==
  AdjustFrom(imgs, Keys(imgs), 1, flashSz)

\* ------------------------------------------------- sanityCheckImages

\* Only the end of the image compared with the flash size.
WillNotFitMutant(imageBegin, imageEnd, flashSz) == imageEnd > flashSz

\* if (imageBegin >= flashSize || imageEnd > flashSize)
WillNotFit(imageBegin, imageEnd, flashSz) ==
  imageBegin >= flashSz \/ imageEnd > flashSz

\* if (imageBegin % flashSectorSize != 0)
NotOnSectorBoundary(imageBegin, flashSectorSize) ==
  imageBegin % flashSectorSize # 0

\* if (imageBegin == 0 && data.length() >= 1) if (data[0] != (char) 0xE9)
InvalidMagic(imageBegin, data) ==
  imageBegin = 0 /\ data.len >= 1 /\ data.head[1] # 233

\* The system params test without the test of the type.
OverlapsSysParamsMutant(imageBegin, imageEnd, image, flashSz) ==
  LET systemParamsBegin == SystemParamsBegin(flashSz)
      systemParamsEnd == flashSz
  IN  IF imageBegin = systemParamsBegin
      THEN FALSE
      ELSE imageBegin < systemParamsEnd /\ imageEnd > systemParamsBegin

\* if (imageBegin == systemParamsBegin && type == kSystemParamsPartType) ok
\* else if (imageBegin < systemParamsEnd && imageEnd > systemParamsBegin)
OverlapsSysParams(imageBegin, imageEnd, image, flashSz) ==
  LET systemParamsBegin == SystemParamsBegin(flashSz)
      systemParamsEnd == flashSz
  IN  IF /\ imageBegin = systemParamsBegin
         /\ image.attrs.type = kSystemParamsPartType
      THEN FALSE
      ELSE imageBegin < systemParamsEnd /\ imageEnd > systemParamsBegin

\* The overlap test with the wrong end: the previous image's begin.
OverlapsPrevMutant(prevImageBegin, prevImageEnd, imageBegin) ==
  prevImageBegin > imageBegin

\* if (prevImageEnd > imageBegin)
OverlapsPrev(prevImageBegin, prevImageEnd, imageBegin) ==
  prevImageEnd > imageBegin

SanityErr(reason, at) ==
  [code |-> "INVALID_ARGUMENT", reason |-> reason, at |-> at]

RECURSIVE SanityFrom(_, _, _, _, _)
\* The loop of sanityCheckImages from the i-th key on; the first failed
\* test returns.
SanityFrom(imgs, keys, i, flashSz, flashSectorSize) ==
  IF i > Len(keys) THEN [code |-> "OK", reason |-> "", at |-> <<>>]
  ELSE
    LET imageBegin == keys[i]
        image == imgs[keys[i]]
        data == image.data
        imageEnd == imageBegin + data.len
    IN
    IF WillNotFit(imageBegin, imageEnd, flashSz)
      THEN SanityErr("fit", <<imageBegin>>)
    ELSE IF NotOnSectorBoundary(imageBegin, flashSectorSize)
      THEN SanityErr("align", <<imageBegin>>)
    ELSE IF InvalidMagic(imageBegin, data)
      THEN SanityErr("magic", <<imageBegin>>)
    ELSE IF OverlapsSysParams(imageBegin, imageEnd, image, flashSz)
      THEN SanityErr("sys_params", <<imageBegin>>)
    ELSE IF /\ i > 1
            /\ OverlapsPrev(keys[i - 1],
                            keys[i - 1] + imgs[keys[i - 1]].data.len,
                            imageBegin)
      THEN SanityErr("overlap", <<keys[i - 1], imageBegin>>)
    ELSE SanityFrom(imgs, keys, i + 1, flashSz, flashSectorSize)

sanityCheckImages(imgs, flashSz, flashSectorSize) ==
  SanityFrom(imgs, Keys(imgs), 1, flashSz, flashSectorSize)

\* ------------------------------------------------------- dedupImages

\* int numBlocks = (data.length() + kFlashSectorSize - 1) / kFlashSectorSize;
NumBlocks(data) == (data.len + kFlashSectorSize - 1) \div kFlashSectorSize

\* int len = kFlashSectorSize;
\* if (len > data.length() - offset) len = data.length() - offset;
BlockLen(data, i) == Min(kFlashSectorSize, data.len - i * kFlashSectorSize)

\* The host's MD5 of block i: hash(data.mid(offset, len), Md5).
BlockHash(data, i) == Md5(DataMid(data, i * kFlashSectorSize, BlockLen(data, i)))

\* DigestResult::blockDigests of a device that holds the image's bytes in
\* exactly the blocks of S.
BlockDigests(data, S) ==
  [i \in 0 .. NumBlocks(data) - 1 |->
     IF i \in S THEN BlockHash(data, i) ELSE Md5(DeviceOther(BlockLen(data, i)))]

\* The fragment cut from the start of the image's data.
FlushImageMutant(st, image) ==
  [st EXCEPT !.newImages =
     (st.newAddr :> [image EXCEPT !.addr = st.newAddr,
                                  !.data = DataMid(image.data, 0, st.newLen)])
     @@ st.newImages]

\* Image newImage(image); newImage.addr = newAddr;
\* newImage.data = data.mid(newAddr - addr, newLen); newImages[newAddr] = newImage;
FlushImage(st, image) ==
  [st EXCEPT !.newImages =
     (st.newAddr :> [image EXCEPT !.addr = st.newAddr,
                                  !.data = DataMid(image.data,
                                                   st.newAddr - image.addr,
                                                   st.newLen)])
     @@ st.newImages]

RECURSIVE DedupBlocks(_, _, _, _, _)
\* The block loop of dedupImages from block i on.  st holds newAddr, newLen,
\* newImageSize, newImages, the bytes added to progress_ and, for each
\* emit progress(progress_), the bytes added up to it.
DedupBlocks(addr, image, blockDigests, i, st) ==
  IF i >= NumBlocks(image.data) THEN st
  ELSE
    LET len == BlockLen(image.data, i) IN
    IF BlockHash(image.data, i) = blockDigests[i]
    THEN LET flushed == IF st.newLen > 0
                        THEN [FlushImage(st, image) EXCEPT !.newLen = 0]
                        ELSE st
         IN  DedupBlocks(addr, image, blockDigests, i + 1,
                         [flushed EXCEPT !.skipped = @ + len,
                                         !.emits = Append(@, st.skipped + len)])
    ELSE DedupBlocks(addr, image, blockDigests, i + 1,
                     [st EXCEPT
                        !.newAddr = IF st.newLen = 0
                                    THEN addr + i * kFlashSectorSize
                                    ELSE @,
                        !.newLen = @ + len,
                        !.newImageSize = @ + len])

\* The threshold with > for >=.
SubstantialMutant(dataLen, newImageSize) ==
  dataLen - newImageSize > kFlashBlockSize

\* if (data.length() - newImageSize >= ESPFlasherClient::kFlashBlockSize)
Substantial(dataLen, newImageSize) ==
  dataLen - newImageSize >= kFlashBlockSize

\* One image of dedupImages, its digest at hand: the images it adds to
\* result and the bytes it adds to progress_.
DedupImage(addr, image, blockDigests) ==
  LET st0 == [newAddr |-> addr, newLen |-> 0, newImageSize |-> 0,
              newImages |-> <<>>, skipped |-> 0, emits |-> <<>>]
      st1 == DedupBlocks(addr, image, blockDigests, 0, st0)
      st2 == IF st1.newLen > 0 THEN FlushImage(st1, image) ELSE st1
  IN  [images |-> IF Substantial(image.data.len, st2.newImageSize)
                  THEN st2.newImages
                  ELSE (addr :> image),
       skipped |-> st2.skipped,
       emits |-> st2.emits]

\* The fragments computed so far kept, the other images whole.
FallbackPlanMutant(imgs, result) ==
  result @@ [k \in {a \in DOMAIN imgs :
                      \A f \in DOMAIN result :
                        f < a \/ f >= a + imgs[a].data.len} |-> imgs[k]]

\* if (!dr.ok()) return images_;  whatever result holds by then.
FallbackPlan(imgs, result) == imgs

RECURSIVE DedupFrom(_, _, _, _, _)
\* The image loop of dedupImages from the i-th key on.  resp[k] is the
\* answer to fc->digest for the image at k: whether it is ok, and its
\* block digests.
\* acc holds result, the bytes added to progress_, the digests asked, and
\* events: the digests asked and the progress emitted, in order, each
\* progress as the bytes added to progress_ up to it.
DedupFrom(imgs, keys, i, resp, acc) ==
  IF i > Len(keys) THEN acc
  ELSE
    LET addr == keys[i]
        image == imgs[addr]
        asked == Append(acc.asked, addr)
    IN
    IF ~resp[addr].ok
    THEN [acc EXCEPT !.result = FallbackPlan(imgs, acc.result),
                     !.asked = asked,
                     !.events = Append(@, [digest |-> addr])]
    ELSE LET one == DedupImage(addr, image, resp[addr].blockDigests)
         IN  DedupFrom(imgs, keys, i + 1, resp,
                       [result |-> one.images @@ acc.result,
                        skipped |-> acc.skipped + one.skipped,
                        asked |-> asked,
                        events |->
                          Append(acc.events, [digest |-> addr]) \o
                          [j \in 1 .. Len(one.emits) |->
                             [progress |-> acc.skipped + one.emits[j]]]])

dedupImages(imgs, resp) ==
  DedupFrom(imgs, Keys(imgs), 1, resp,
            [result |-> <<>>, skipped |-> 0, asked |-> <<>>,
             events |-> <<>>])

\* ------------------------------------------------------ bounded inputs

\* A bundle part: its address, length, first byte, type and content name.
Part(addr, len, magic, type, tag) ==
  Image(addr, Data(len, FirstBytes(magic, len), tag, 0), type)

\* The parts of the layout family, for a flash of 512 KiB (system params
\* area at 507904): aligned and unaligned, empty, partial and whole
\* sectors, with and without the magic byte, below, across, at, inside
\* and beyond the system params area.
LayoutParts ==
  { Part(0, 4096, 233, "", "boot"),
    Part(0, 12288, 233, "", "boot3"),
    Part(0, 4096, 0, "", "nomagic"),
    Part(0, 0, 0, "", "empty0"),
    Part(4096, 4096, 0, "", "a"),
    Part(4096, 0, 0, "", "empty1"),
    Part(4096, 4096, 0, "sys_params", "sys1"),
    Part(8192, 100, 0, "", "b"),
    Part(8192, 8192, 0, "sys_params", "sys2"),
    Part(5000, 100, 0, "", "unaligned"),
    Part(503808, 4096, 0, "", "below"),
    Part(503808, 8192, 0, "", "across"),
    Part(507904, 16384, 0, "sys_params", "sys3"),
    Part(507904, 4096, 0, "", "squatter"),
    Part(516096, 4096, 0, "", "inside"),
    Part(520192, 8192, 0, "", "beyond"),
    Part(524288, 0, 0, "", "end") }

\* setFirmware: images_[addr] = {addr, data, attrs}, one image per address.
ImageSets(parts, n) ==
  { [a \in {p.addr : p \in ps} |-> CHOOSE p \in ps : p.addr = a] :
      ps \in { q \in SUBSET parts :
                 /\ Cardinality(q) <= n
                 /\ \A x, y \in q : x.addr = y.addr => x = y } }

\* The images of the dedup family: one image of 16 sectors, of 16 sectors
\* and a half or of 17 and a half, alone or followed by a one-sector image.
DedupImageSets ==
  { (0 :> Part(0, len, 233, "", "big")) @@ rest :
      len \in {65536, 67584, 71680},
      rest \in { <<>>, (73728 :> Part(73728, 4096, 0, "", "next")) } }

\* The images of the pipeline family: a boot image, a one-sector file
\* system image at 8192 and a sys_params image to relocate.
PipelineImageSets ==
  { (0 :> Part(0, 4096, 233, "", "boot")) @@ fs @@ sys :
      fs \in { <<>>, (8192 :> Part(8192, 4096, 0, "", "fs")) },
      sys \in { <<>>, (16384 :> Part(16384, 4096, 0, "sys_params", "sys")) } }

Config(imgs, fsz, ovr, erase, merge, minimize, port, romFails) ==
  [images |-> imgs, flashSize |-> fsz, override |-> ovr, erase |-> erase,
   merge |-> merge, minimize |-> minimize, port |-> port,
   romFails |-> romFails]

\* Layouts: every set of up to MaxImages parts, flash size given.
LayoutConfigs ==
  { Config(imgs, 524288, -1, FALSE, FALSE, FALSE, "", 0) :
      imgs \in ImageSets(LayoutParts, MaxImages) }

\* Dedup: large images, minimize_writes_ set.
DedupConfigs ==
  { Config(imgs, 524288, -1, FALSE, FALSE, TRUE, "", 0) :
      imgs \in DedupImageSets }

\* Pipeline: the options.  Flash params 544 = 0x220 (dio, 8m, 40m) and
\* 656 = 0x290 (size id 9, which flashSizeById does not hold).
PipelineConfigs ==
  { Config(imgs, fsz, ovr, erase, merge, minimize, "", 0) :
      imgs \in PipelineImageSets,
      fsz \in {0, 524288},
      ovr \in {-1, 544, 656},
      erase \in BOOLEAN, merge \in BOOLEAN, minimize \in BOOLEAN }

\* Handshake: a device that fails the ROM handshake, a second port.
HandshakeConfigs ==
  { Config((0 :> Part(0, 4096, 233, "", "boot")), 524288, -1, FALSE, FALSE,
           FALSE, port, MaxRomFailures) : port \in {"", "ttyUSB1"} }

\* Reconfiguration: a boot image and a file system image, flash size
\* given, no other option set, a device that fails one ROM handshake.
ReconfigConfig ==
  Config((0 :> Part(0, 4096, 233, "", "boot")) @@
         (8192 :> Part(8192, 4096, 0, "", "fs")),
         524288, -1, FALSE, FALSE, FALSE, "", 1)

\* Flash sizes given with esp8266-flash-size: 128 KiB, 256 KiB, 1 MiB,
\* 2 MiB, 3 MiB, 4 MiB and 16 MiB.
ExplicitSizes ==
  {131072, 262144, 1048576, 2097152, 3145728, 4194304, 16777216}

\* Flash size given: a boot image, no other option set.
SizeConfigs ==
  { Config((0 :> Part(0, 4096, 233, "", "boot")), fsz, -1, FALSE, FALSE,
           FALSE, "", 0) : fsz \in ExplicitSizes }

Configs == LayoutConfigs \cup DedupConfigs \cup PipelineConfigs
           \cup HandshakeConfigs \cup {ReconfigConfig} \cup SizeConfigs

\* The answers of getFlashChipID the device is taken to give, each the
\* four bytes of the quint32 from the highest down: 0xC8401300, 0xC8401400
\* and 0xC8401700 (capacity 0x13, 0x14, 0x17 in bits 8..15), 0x00401400
\* (no manufacturer), 0xC8401200 (capacity too small), and 0x00C84013 and
\* 0x00C84014 (manufacturer, type, capacity in the low 24 bits).
ChipIDs ==
  { <<200, 64, 19, 0>>, <<200, 64, 20, 0>>, <<200, 64, 23, 0>>,
    <<0, 64, 20, 0>>, <<200, 64, 18, 0>>, <<0, 200, 64, 19>>,
    <<0, 200, 64, 20>> }

\* The sets of blocks the device may hold already: every set for an image
\* of up to three blocks; for a larger one every run of blocks and every
\* complement of a run.
MatchSets(n) ==
  IF n <= 3 THEN SUBSET (0 .. n - 1)
  ELSE LET runs == { a .. b : a \in 0 .. n - 1, b \in -1 .. n - 1 }
       IN  runs \cup { (0 .. n - 1) \ r : r \in runs }

\* ---------------------------------------------------------------- state

VARIABLES
  pc,                       \* where run() stands
  images_,                  \* QMap<ulong, Image> images_
  flashSize_,               \* quint32 flashSize_
  override_flash_params_,   \* qint32 override_flash_params_
  erase_chip_,              \* bool erase_chip_
  merge_flash_filesystem_,  \* bool merge_flash_filesystem_
  minimize_writes_,         \* bool minimize_writes_
  flashing_port_name_,      \* QString flashing_port_name_
  spiffs_offset_,           \* ulong spiffs_offset_
  spiffs_size_,             \* ulong spiffs_size_
  progress_,                \* int progress_
  flashImages,              \* runLocked's flashImages
  idx,                      \* position of the write / verify loop
  status,                   \* the util::Status runLocked returned
  done,                     \* the done(text, ok) notifications emitted
  cmds,                     \* device commands, prompts and progress
                            \* notifications, in order
  sanity,                   \* what sanityCheckImages returned
  dedupResp,                \* what the device answered to dedup digests
  romFailsLeft,             \* handshakes the device will still fail
  total,                    \* totalBytes() as read when run() was called
  loaded,                   \* the bundle last passed to setFirmware and
                            \* the status it returned
  parse                     \* a flash params string, what
                            \* flashParamsFromString returned for it and
                            \* what flashSizeFromParams returned for that

vars == <<pc, images_, flashSize_, override_flash_params_, erase_chip_,
          merge_flash_filesystem_, minimize_writes_, flashing_port_name_,
          spiffs_offset_, spiffs_size_, progress_, flashImages, idx, status,
          done, cmds, sanity, dedupResp, romFailsLeft, total, loaded,
          parse>>

options == <<override_flash_params_, erase_chip_, merge_flash_filesystem_,
             minimize_writes_, flashing_port_name_, spiffs_offset_,
             spiffs_size_>>

\* A device command or a prompt: op, its address (or the answer), its
\* length and its result.
Cmd(op, a, n, r) == [op |-> op, a |-> a, n |-> n, r |-> r]

\* totalBytes(): the lengths of all images, and the length of the image at
\* spiffs_offset_ once again when the merge is enabled and it is present.
RECURSIVE SumLengths(_, _)
SumLengths(imgs, keys) ==
  IF keys = {} THEN 0
  ELSE LET k == CHOOSE x \in keys : TRUE
       IN  imgs[k].data.len + SumLengths(imgs, keys \ {k})

totalBytes(imgs, merge, spiffs_offset) ==
  SumLengths(imgs, DOMAIN imgs)
    + (IF merge /\ spiffs_offset \in DOMAIN imgs
       THEN imgs[spiffs_offset].data.len ELSE 0)

\* QVariant::toUInt(&ok) of a string given by its characters: decimal
\* digits, of a number that fits quint32 (texts of up to nine digits).
RECURSIVE DecimalValue(_, _, _)
DecimalValue(text, i, acc) ==
  IF i > Len(text) THEN acc
  ELSE DecimalValue(text, i + 1, acc * 10 + DigitOf[text[i]])

toUInt(text) ==
  IF /\ Len(text) \in 1 .. 9
     /\ \A i \in 1 .. Len(text) :
          text[i] \in DOMAIN DigitOf /\ DigitOf[text[i]] < 10
  THEN [ok |-> TRUE, value |-> DecimalValue(text, 1, 0)]
  ELSE [ok |-> FALSE, value |-> 0]

\* A part of a FirmwareBundle: its name, attrs["addr"] (a QVariant, invalid
\* when the part has no addr), attrs["type"], and what getPartSource
\* returns for it.
FwPart(name, addr, type, source) ==
  [name |-> name, addr |-> addr, type |-> type, source |-> source]

\* images_[addr] = {.addr = addr, .data = data, .attrs = p.attrs};
InsertImage(imgs, addr, image) ==
  [a \in DOMAIN imgs \cup {addr} |-> IF a = addr THEN image ELSE imgs[a]]

RECURSIVE SetFirmwareFrom(_, _, _)
\* The loop of setFirmware from the i-th part on: the status it returns and
\* images_ when it returns.
SetFirmwareFrom(imgs, parts, i) ==
  IF i > Len(parts) THEN [status |-> "OK", images |-> imgs]
  ELSE LET p == parts[i] IN
       IF p.addr.type = "invalid"
       THEN [status |-> "INVALID_ARGUMENT", images |-> imgs]
       ELSE LET addr == toUInt(p.addr.v) IN
            IF ~addr.ok
            THEN [status |-> "INVALID_ARGUMENT", images |-> imgs]
            ELSE IF ~p.source.ok
            THEN [status |-> p.source.code, images |-> imgs]
            ELSE SetFirmwareFrom(
                   InsertImage(imgs, addr.value,
                               Image(addr.value, p.source.value, p.type)),
                   parts, i + 1)

\* setFirmware(fw), fw->parts() being parts.
setFirmware(imgs, parts) == SetFirmwareFrom(imgs, parts, 1)

\* emit progress(bytes)
Progress(bytes) == Cmd("progress", bytes, 0, "ok")

EmptyMap == <<>>

NotCalled == [ok |-> FALSE, value |-> 0, code |-> "none"]

NoParse == [s |-> <<>>, r |-> NotCalled, size |-> NotCalled]

NoLoad == [bundle |-> <<>>, status |-> "none"]

NoSanity == [code |-> "none", reason |-> "", at |-> <<>>]

\* The flasher after construction, setFirmware and setOptionsFromConfig.
Init ==
  \E c \in Configs :
    /\ pc = "idle"
    /\ images_ = c.images
    /\ flashSize_ = c.flashSize
    /\ override_flash_params_ = c.override
    /\ erase_chip_ = c.erase
    /\ merge_flash_filesystem_ = c.merge
    /\ minimize_writes_ = c.minimize
    /\ flashing_port_name_ = c.port
    /\ spiffs_offset_ = 8192
    /\ spiffs_size_ = 4096
    /\ progress_ = 0
    /\ flashImages = EmptyMap
    /\ idx = 0
    /\ status = "none"
    /\ done = <<>>
    /\ cmds = <<>>
    /\ sanity = NoSanity
    /\ dedupResp = EmptyMap
    /\ romFailsLeft = c.romFails
    /\ total = 0
    /\ parse = NoParse
    /\ loaded = NoLoad

\* run(): runLocked returned st; emit done(..., st.ok()).
Finish(code) ==
  /\ pc' = "done"
  /\ status' = code
  /\ done' = Append(done, code = "OK")

Continue(next) ==
  /\ pc' = next
  /\ UNCHANGED <<status, done>>

\* run() up to the ROM handshake: no firmware, getFlashingDataPort.
Run ==
  /\ pc = "idle"
  /\ total' = totalBytes(images_, merge_flash_filesystem_, spiffs_offset_)
  /\ UNCHANGED <<parse, loaded>>
  /\ UNCHANGED <<images_, flashSize_, options, flashImages, idx,
                 sanity, dedupResp, romFailsLeft>>
  /\ IF images_ = EmptyMap
     THEN Finish("FAILED_PRECONDITION") /\ UNCHANGED <<progress_, cmds>>
     ELSE /\ progress_' = 0
          /\ cmds' = Append(cmds, Progress(0))
          /\ \/ Continue("rom")
             \/ /\ flashing_port_name_ # ""
                /\ \E code \in {"NOT_FOUND", "UNKNOWN"} : Finish(code)

\* st = rom.connect(); if (st.ok()) break;
RomConnect ==
  /\ pc = "rom"
  /\ UNCHANGED <<total, parse, loaded>>
  /\ UNCHANGED <<images_, flashSize_, options, progress_, flashImages, idx,
                 sanity, dedupResp>>
  /\ \/ /\ cmds' = Append(cmds, Cmd("rom.connect", 0, 0, "ok"))
        /\ Continue("stub")
        /\ UNCHANGED romFailsLeft
     \/ /\ romFailsLeft > 0
        /\ romFailsLeft' = romFailsLeft - 1
        /\ cmds' = Append(cmds, Cmd("rom.connect", 0, 0, "fail"))
        /\ Continue("rom_prompt")

\* Answer 0 for answer 1.
RomCancelledMutant(answer) == answer = 0

\* if (answer == 1) return UNAVAILABLE
RomCancelled(answer) == answer = 1

\* prompter_->Prompt(msg, {Retry, Cancel})
RomPrompt ==
  /\ pc = "rom_prompt"
  /\ UNCHANGED <<total, parse, loaded>>
  /\ UNCHANGED <<images_, flashSize_, options, progress_, flashImages, idx,
                 sanity, dedupResp, romFailsLeft>>
  /\ \E answer \in {0, 1} :
       /\ cmds' = Append(cmds, Cmd("prompt.rom", answer, 0, "ok"))
       /\ IF RomCancelled(answer)
          THEN Finish("UNAVAILABLE")
          ELSE Continue("rom")

\* st = flasher_client.connect(flashing_speed_);
StubConnect ==
  /\ pc = "stub"
  /\ UNCHANGED <<total, parse, loaded>>
  /\ UNCHANGED <<images_, flashSize_, options, progress_, flashImages, idx,
                 sanity, dedupResp, romFailsLeft>>
  /\ \/ /\ cmds' = Append(cmds, Cmd("flasher.connect", 0, 0, "ok"))
        /\ Continue("size")
     \/ /\ cmds' = Append(cmds, Cmd("flasher.connect", 0, 0, "fail"))
        /\ Finish("DEVICE_ERROR")

\* The flash size a chip ID gives, 0 if none: mfg = (id & 0xff000000) >> 24,
\* capacity = (id & 0x0000ff00) >> 8; flashSize_ = 1 << capacity.
SizeFromChipID(id) ==
  LET mfg == id[1]
      capacity == id[3]
  IN  IF mfg # 0 /\ capacity >= 19 /\ capacity < 32
      THEN 2 ^ capacity
      ELSE 0

\* The override used only when no flash size option was given.
UsesOverrideMutant(override, flashSz) == override >= 0 /\ flashSz = 0

\* if (override_flash_params_ >= 0)
UsesOverride(override, flashSz) == override >= 0

\* The flash size: the override's, the option's, the chip's, or 512 KiB.
\* The command getFlashChipID is logged with the chip ID it returned.
ResolveFlashSize ==
  /\ pc = "size"
  /\ UNCHANGED <<total, parse, loaded>>
  /\ UNCHANGED <<images_, options, progress_, flashImages, idx, sanity,
                 dedupResp, romFailsLeft>>
  /\ IF UsesOverride(override_flash_params_, flashSize_)
     THEN LET r == flashSizeFromParams(override_flash_params_) IN
          /\ UNCHANGED cmds
          /\ IF r.ok
             THEN flashSize_' = r.value /\ Continue("adjust")
             ELSE \* ValueOrDie() of an error
                  /\ UNCHANGED flashSize_
                  /\ pc' = "aborted" /\ UNCHANGED <<status, done>>
     ELSE IF flashSize_ = 0
     THEN \/ \E id \in ChipIDs :
               /\ cmds' = Append(cmds, Cmd("getFlashChipID", id, 0, "ok"))
               /\ flashSize_' = IF SizeFromChipID(id) = 0
                                THEN kDefaultFlashSize
                                ELSE SizeFromChipID(id)
               /\ Continue("adjust")
          \/ /\ cmds' = Append(cmds, Cmd("getFlashChipID", 0, 0, "fail"))
             /\ flashSize_' = kDefaultFlashSize
             /\ Continue("adjust")
     ELSE /\ UNCHANGED <<cmds, flashSize_>>
          /\ Continue("adjust")

\* adjustSysParamsLocation(flashSize_);
AdjustSysParams ==
  /\ pc = "adjust"
  /\ UNCHANGED <<total, parse, loaded>>
  /\ images_' = adjustSysParamsLocation(images_, flashSize_)
  /\ Continue("sanity")
  /\ UNCHANGED <<flashSize_, options, progress_, flashImages, idx, cmds,
                 sanity, dedupResp, romFailsLeft>>

\* A failed check that does not end the run.
SanityFailedMutant(st) == FALSE

\* if (!st.ok()) return st;
SanityFailed(st) == st.code # "OK"

\* st = sanityCheckImages(flashSize_, flasher_client.kFlashSectorSize);
SanityCheck ==
  /\ pc = "sanity"
  /\ UNCHANGED <<total, parse, loaded>>
  /\ sanity' = sanityCheckImages(images_, flashSize_, kFlashSectorSize)
  /\ IF SanityFailed(sanity')
     THEN Finish(sanity'.code)
     ELSE Continue("patch")
  /\ UNCHANGED <<images_, flashSize_, options, progress_, flashImages, idx,
                 cmds, dedupResp, romFailsLeft>>

\* tr("dio,%1m,40m").arg(flashSize_ * 8 / 1048576), split at the commas.
AutoParamsString(flashSz) ==
  <<"dio", <<(flashSz * 8) \div 1048576, "">>, "40m">>

\* The two bytes stored in the other order.
PatchDataMutant(data, flashParams) ==
  [data EXCEPT !.head = [@ EXCEPT ![3] = flashParams % 256,
                                  ![4] = (flashParams \div 256) % 256]]

\* images_[0].data[2] = (flashParams >> 8) & 0xff;
\* images_[0].data[3] = flashParams & 0xff;
PatchData(data, flashParams) ==
  [data EXCEPT !.head = [@ EXCEPT ![3] = (flashParams \div 256) % 256,
                                  ![4] = flashParams % 256]]

\* The flash params patch of the image at 0.
PatchFlashParams ==
  /\ pc = "patch"
  /\ UNCHANGED <<total, parse, loaded>>
  /\ UNCHANGED <<options, progress_, flashImages, idx, cmds, sanity,
                 dedupResp, romFailsLeft>>
  /\ IF 0 \in DOMAIN images_ /\ images_[0].data.len >= 4
     THEN IF override_flash_params_ >= 0
          THEN /\ images_' = [images_ EXCEPT ![0].data =
                                PatchData(@, override_flash_params_)]
               /\ UNCHANGED flashSize_
               /\ Continue("merge")
          ELSE LET clamped == IF flashSize_ > kMaxParamsFlashSize
                              THEN kMaxParamsFlashSize ELSE flashSize_
                   r == flashParamsFromString(AutoParamsString(clamped))
               IN  /\ flashSize_' = clamped
                   /\ IF r.ok
                      THEN /\ images_' = [images_ EXCEPT ![0].data =
                                            PatchData(@, r.value)]
                           /\ Continue("merge")
                      ELSE \* ValueOrDie() of an error
                           /\ UNCHANGED images_
                           /\ pc' = "aborted" /\ UNCHANGED <<status, done>>
     ELSE /\ UNCHANGED <<images_, flashSize_>>
          /\ Continue("merge")

\* mergeFilesystems(dev_fs, new_fs) when it succeeds: an image of the size
\* of the device's file system.
MergedData(size) == Data(size, FirstBytes(0, size), "merged", 0)

\* if (res.ValueOrDie().size() > 0) images_[spiffs_offset_].data = res
\* else images_.remove(spiffs_offset_);
SubstituteFS(imgs, offset, data) ==
  IF data.len > 0
  THEN [imgs EXCEPT ![offset].data = data]
  ELSE [k \in DOMAIN imgs \ {offset} |-> imgs[k]]

\* The answers Write new and Keep old exchanged.
MergeFallbackMutant(answer, imgs, offset) ==
  CASE answer = 2 -> StatusOK(imgs[offset].data)
    [] answer = 1 -> StatusOK(Data(0, <<>>, "", 0))
    [] OTHER -> StatusErr("MERGE_ERROR")

\* mergeFlashLocked's answer to the prompt after mergeFilesystems failed:
\* what it returns to runLocked.
MergeFallback(answer, imgs, offset) ==
  CASE answer = 1 -> StatusOK(imgs[offset].data)
    [] answer = 2 -> StatusOK(Data(0, <<>>, "", 0))
    [] OTHER -> StatusErr("MERGE_ERROR")

\* connect(fc, &ESPFlasherClient::progress, [this](int bytesRead) {
\*   emit progress(this->progress_ + bytesRead); });
\* for the last progress(bytesRead) of a read, none if bytesRead is 0.
ReadProgress(progress, bytesRead) ==
  IF bytesRead > 0 THEN << Progress(progress + bytesRead) >> ELSE << >>

\* The bytes a read of size bytes may have reported when it fails: none,
\* or its first half.
ReadFailsAfter(size) == {0, size \div 2}

\* The SPIFFS merge step: mergeFlashLocked and what runLocked does with
\* its result.
MergeStep ==
  /\ pc = "merge"
  /\ UNCHANGED <<total, parse, loaded>>
  /\ UNCHANGED <<flashSize_, options, flashImages, idx, sanity, dedupResp,
                 romFailsLeft>>
  /\ Continue("plan")
  /\ IF merge_flash_filesystem_ /\ spiffs_offset_ \in DOMAIN images_
     THEN \/ \* fc->read fails, after bytesRead bytes were reported
             \E bytesRead \in ReadFailsAfter(spiffs_size_) :
               /\ cmds' = cmds \o ReadProgress(progress_, bytesRead) \o
                            << Cmd("read", spiffs_offset_, spiffs_size_,
                                   "fail") >>
               /\ UNCHANGED <<images_, progress_>>
          \/ \* mergeFilesystems succeeds
             /\ cmds' = cmds \o ReadProgress(progress_, spiffs_size_) \o
                          << Cmd("read", spiffs_offset_, spiffs_size_,
                                 "ok") >>
             /\ progress_' = progress_ + spiffs_size_
             /\ images_' = SubstituteFS(images_, spiffs_offset_,
                                        MergedData(spiffs_size_))
          \/ \* mergeFilesystems fails: prompt {Cancel, Write new, Keep old}
             \E answer \in {0, 1, 2} :
               LET res == MergeFallback(answer, images_, spiffs_offset_) IN
               /\ cmds' = cmds \o ReadProgress(progress_, spiffs_size_) \o
                    << Cmd("read", spiffs_offset_, spiffs_size_, "ok"),
                       Cmd("prompt.merge", answer, 0, "ok") >>
               /\ progress_' = progress_ + spiffs_size_
               /\ images_' = IF res.ok
                             THEN SubstituteFS(images_, spiffs_offset_,
                                               res.value)
                             ELSE images_
     ELSE UNCHANGED <<images_, progress_, cmds>>

\* The answers fc->digest(addr, len, kFlashSectorSize) may give for an
\* image: a failure, or the block digests of a device holding the blocks
\* of S.
AnswersFor(image) ==
  {[ok |-> FALSE, S |-> {}]} \cup
  {[ok |-> TRUE, S |-> S] : S \in MatchSets(NumBlocks(image.data))}

RECURSIVE DigestAnswers(_, _)
\* One answer for each image with a key in K.
DigestAnswers(imgs, K) ==
  IF K = {} THEN {<<>>}
  ELSE LET k == MinOf(K) IN
       { (k :> a) @@ f : a \in AnswersFor(imgs[k]),
                         f \in DigestAnswers(imgs, K \ {k}) }

\* The DigestResult (or failure) of each answer.
DigestResp(imgs, ans) ==
  [k \in DOMAIN imgs |->
     [ok |-> ans[k].ok, blockDigests |-> BlockDigests(imgs[k].data, ans[k].S)]]

\* flashImages.keys() with the order reversed.
WriteOrderMutant(fi) ==
  LET ks == Keys(fi) IN [i \in 1 .. Len(ks) |-> ks[Len(ks) + 1 - i]]

\* for (ulong image_addr : flashImages.keys())
WriteOrder(fi) == Keys(fi)

\* A failed eraseChip that does not end the run.
EraseFailedMutant(r) == FALSE

\* st = flasher_client.eraseChip(); if (!st.ok()) return st;
EraseFailed(r) == r # "ok"

\* auto flashImages = images_; eraseChip, or dedupImages.
Plan ==
  /\ pc = "plan"
  /\ UNCHANGED <<total, parse, loaded>>
  /\ idx' = 1
  /\ UNCHANGED <<images_, flashSize_, options, sanity, romFailsLeft>>
  /\ IF erase_chip_
     THEN /\ UNCHANGED <<progress_, dedupResp>>
          /\ flashImages' = images_
          /\ \E r \in {"ok", "fail"} :
               /\ cmds' = Append(cmds, Cmd("eraseChip", 0, 0, r))
               /\ IF EraseFailed(r)
                  THEN Finish("DEVICE_ERROR")
                  ELSE Continue("write")
     ELSE IF minimize_writes_
     THEN \E ans \in DigestAnswers(images_, DOMAIN images_) :
            LET d == dedupImages(images_, DigestResp(images_, ans)) IN
            /\ flashImages' = d.result
            /\ progress_' = progress_ + d.skipped
            /\ cmds' = cmds \o
                 [i \in 1 .. Len(d.events) |->
                    IF "digest" \in DOMAIN d.events[i]
                    THEN Cmd("digest.sectors", d.events[i].digest,
                             images_[d.events[i].digest].data.len,
                             IF ans[d.events[i].digest].ok
                             THEN "ok" ELSE "fail")
                    ELSE Progress(progress_ + d.events[i].progress)]
            /\ dedupResp' = [k \in {d.asked[i] : i \in 1 .. Len(d.asked)}
                               |-> ans[k]]
            /\ Continue("write")
     ELSE /\ flashImages' = images_
          /\ UNCHANGED <<progress_, dedupResp, cmds>>
          /\ Continue("write")

\* The data written as it is, without padding.
PaddedLenMutant(len) == len

\* data.append('\x00') up to the next multiple of kFlashSectorSize.
PaddedLen(len) ==
  IF len % kFlashSectorSize # 0
  THEN len + (kFlashSectorSize - (len % kFlashSectorSize))
  ELSE len

\* A failed write that does not end the run.
WriteFailedMutant(r) == FALSE

\* st = flasher_client.write(...); if (!st.ok()) return UNAVAILABLE
WriteFailed(r) == r # "ok"

\* flasher_client.write(image_addr, data, true /* erase */): the address,
\* the image's bytes, the length of data after the '\x00' bytes were
\* appended, the erase flag and the result.
WriteCmd(addr, data, paddedLen, erase, r) ==
  [op |-> "write", a |-> addr, n |-> paddedLen, r |-> r,
   data |-> data, erase |-> erase]

\* connect(&flasher_client, &ESPFlasherClient::progress,
\*   [this, origLength](int bytesWritten) {
\*     emit progress(this->progress_ + std::min(bytesWritten, origLength)); });
\* for the last progress(bytesWritten) of a write, none if it is 0.
WriteProgress(progress, bytesWritten, origLength) ==
  IF bytesWritten > 0
  THEN << Progress(progress + Min(bytesWritten, origLength)) >>
  ELSE << >>

\* The bytes a write of paddedLen bytes has reported when it ends: all of
\* them when it succeeded, none or the first half when it failed.
WrittenBytes(r, paddedLen) ==
  IF r = "ok" THEN {paddedLen} ELSE {0, paddedLen \div 2}

\* One pass of the write loop.
WriteImage ==
  /\ pc = "write"
  /\ UNCHANGED <<total, parse, loaded>>
  /\ idx <= Len(WriteOrder(flashImages))
  /\ UNCHANGED <<images_, flashSize_, options, flashImages, sanity,
                 dedupResp, romFailsLeft>>
  /\ LET image_addr == WriteOrder(flashImages)[idx]
         image == flashImages[image_addr]
         origLength == image.data.len
     IN  \E r \in {"ok", "fail"} :
         \E bytesWritten \in WrittenBytes(r, PaddedLen(origLength)) :
           /\ cmds' = cmds \o << Progress(progress_) >> \o
                        WriteProgress(progress_, bytesWritten, origLength) \o
                        << WriteCmd(image_addr, image.data,
                                    PaddedLen(origLength), TRUE, r) >>
           /\ IF WriteFailed(r)
              THEN Finish("UNAVAILABLE") /\ UNCHANGED <<progress_, idx>>
              ELSE /\ progress_' = progress_ + origLength
                   /\ idx' = idx + 1
                   /\ Continue("write")

\* The write loop ends: verifyImages starts.
WriteLoopEnd ==
  /\ pc = "write"
  /\ UNCHANGED <<total, parse, loaded>>
  /\ idx > Len(WriteOrder(flashImages))
  /\ idx' = 1
  /\ Continue("verify")
  /\ UNCHANGED <<images_, flashSize_, options, progress_, flashImages, cmds,
                 sanity, dedupResp, romFailsLeft>>

\* A mismatch that is not noticed.
DigestMismatchMutant(hash, digest) == FALSE

\* if (hash != digests.digest)
DigestMismatch(hash, digest) == hash # digest

\* One pass of the loop of verifyImages over images_.
VerifyImage ==
  /\ pc = "verify"
  /\ UNCHANGED <<total, parse, loaded>>
  /\ idx <= Len(Keys(images_))
  /\ UNCHANGED <<images_, flashSize_, options, progress_, flashImages,
                 sanity, dedupResp, romFailsLeft>>
  /\ LET image == images_[Keys(images_)[idx]]
         addr == image.addr
         data == image.data
         hash == Md5(data)
     IN  \/ \* fc->digest fails
            /\ cmds' = Append(cmds, Cmd("digest", addr, data.len, "fail"))
            /\ Finish("DEVICE_ERROR")
            /\ UNCHANGED idx
         \/ \E digest \in {Md5(data), Md5(DeviceOther(data.len))} :
              /\ cmds' = Append(cmds, Cmd("digest", addr, data.len,
                                          IF digest = Md5(data)
                                          THEN "same" ELSE "diff"))
              /\ IF DigestMismatch(hash, digest)
                 THEN Finish("DATA_LOSS") /\ UNCHANGED idx
                 ELSE idx' = idx + 1 /\ Continue("verify")

\* verifyImages returns OK.
VerifyLoopEnd ==
  /\ pc = "verify"
  /\ UNCHANGED <<total, parse, loaded>>
  /\ idx > Len(Keys(images_))
  /\ Continue("boot")
  /\ UNCHANGED <<images_, flashSize_, options, progress_, flashImages, idx,
                 cmds, sanity, dedupResp, romFailsLeft>>

\* The RTS reset skipped when bootFirmware failed.
RebootsAfterMutant(r) == r = "ok"

\* rom.rebootIntoFirmware() follows bootFirmware() whatever it returned.
RebootsAfter(r) == TRUE

\* st = flasher_client.bootFirmware(); rom.rebootIntoFirmware(); return st;
Boot ==
  /\ pc = "boot"
  /\ UNCHANGED <<total, parse, loaded>>
  /\ UNCHANGED <<images_, flashSize_, options, progress_, flashImages, idx,
                 sanity, dedupResp, romFailsLeft>>
  /\ \E r \in {"ok", "fail"} :
       /\ cmds' = cmds \o << Cmd("bootFirmware", 0, 0, r) >> \o
                    (IF RebootsAfter(r)
                     THEN << Cmd("rebootIntoFirmware", 0, 0, "ok") >>
                     ELSE << >>)
       /\ Finish(IF r = "ok" THEN "OK" ELSE "DEVICE_ERROR")

Next ==
  \/ Run
  \/ RomConnect
  \/ RomPrompt
  \/ StubConnect
  \/ ResolveFlashSize
  \/ AdjustSysParams
  \/ SanityCheck
  \/ PatchFlashParams
  \/ MergeStep
  \/ Plan
  \/ WriteImage
  \/ WriteLoopEnd
  \/ VerifyImage
  \/ VerifyLoopEnd
  \/ Boot

Spec == Init /\ [][Next]_vars

\* ------------------------------- reconfiguration from another thread

\* const char kFlashEraseChipOption[] = "esp8266-flash-erase-chip";
kFlashEraseChipOption == "esp8266-flash-erase-chip"

\* const char kFlashParamsOption[] = "esp8266-flash-params";
kFlashParamsOption == "esp8266-flash-params"

\* const char kNoMinimizeWritesOption[] = "esp8266-no-minimize-writes";
kNoMinimizeWritesOption == "esp8266-no-minimize-writes"

\* kMergeFSOption
kMergeFSOption == "merge-flash-filesystem"

\* A QVariant: its type and its value.
Variant(type, v) == [type |-> type, v |-> v]

\* The option fields setOption may assign.
OptionFields ==
  [override |-> override_flash_params_, erase |-> erase_chip_,
   merge |-> merge_flash_filesystem_, minimize |-> minimize_writes_]

\* setOption(name, value): the status it returns and the option fields
\* after it, o being the fields before it.
setOption(o, name, value) ==
  IF name = kFlashEraseChipOption THEN
    IF value.type # "bool"
    THEN [status |-> "INVALID_ARGUMENT", fields |-> o]
    ELSE [status |-> "OK", fields |-> [o EXCEPT !.erase = value.v]]
  ELSE IF name = kMergeFSOption THEN
    IF value.type # "bool"
    THEN [status |-> "INVALID_ARGUMENT", fields |-> o]
    ELSE [status |-> "OK", fields |-> [o EXCEPT !.merge = value.v]]
  ELSE IF name = kFlashParamsOption THEN
    IF value.type = "string" THEN
      LET r == flashParamsFromString(value.v) IN
      IF ~r.ok
      THEN [status |-> r.code, fields |-> o]
      ELSE [status |-> "OK", fields |-> [o EXCEPT !.override = r.value]]
    ELSE IF value.type = "int"
    THEN [status |-> "OK", fields |-> [o EXCEPT !.override = value.v]]
    ELSE [status |-> "INVALID_ARGUMENT", fields |-> o]
  ELSE IF name = kNoMinimizeWritesOption THEN
    IF value.type # "bool"
    THEN [status |-> "INVALID_ARGUMENT", fields |-> o]
    ELSE [status |-> "OK", fields |-> [o EXCEPT !.minimize = ~value.v]]
  ELSE [status |-> "INVALID_ARGUMENT", fields |-> o]

\* The values another thread passes to setOption: for the flash params
\* 0x220 and 0x290 as numbers, "dio,8m,40m", "dio,64m,40m" and an invalid
\* QVariant; for the other options true and the number 1.
OptionValues(name) ==
  IF name = kFlashParamsOption
  THEN { Variant("int", 544), Variant("int", 656),
         Variant("string", <<"dio", <<8, "">>, "40m">>),
         Variant("string", <<"dio", <<64, "">>, "40m">>),
         Variant("none", 0) }
  ELSE { Variant("bool", TRUE), Variant("int", 1) }

OptionNames ==
  { kFlashEraseChipOption, kMergeFSOption, kFlashParamsOption,
    kNoMinimizeWritesOption, "unknown" }

\* run(): QMutexLocker lock(&lock_), held until run() returns.
LockHeld == pc \notin {"idle", "done", "aborted"}

\* Another thread calls setOption, which takes no lock.
SetOption ==
  /\ UNCHANGED <<total, parse, loaded>>
  /\ \E name \in OptionNames : \E value \in OptionValues(name) :
       LET r == setOption(OptionFields, name, value) IN
       /\ override_flash_params_' = r.fields.override
       /\ erase_chip_' = r.fields.erase
       /\ merge_flash_filesystem_' = r.fields.merge
       /\ minimize_writes_' = r.fields.minimize
  /\ UNCHANGED <<pc, images_, flashSize_, flashing_port_name_,
                 spiffs_offset_, spiffs_size_, progress_, flashImages, idx,
                 status, done, cmds, sanity, dedupResp, romFailsLeft>>

\* getPartSource(p.name) returning the part's bytes, and failing.
Readable(len, magic, tag) == StatusOK(Data(len, FirstBytes(magic, len), tag, 0))

Unreadable ==
  [ok |-> FALSE, value |-> Data(0, <<>>, "", 0), code |-> "UNAVAILABLE"]

\* The bundle another thread loads: a boot image alone.
OtherFirmware ==
  << FwPart("boot", Variant("string", <<"0">>), "",
            Readable(4096, 233, "boot2")) >>

\* Another thread calls setFirmware: QMutexLocker lock(&lock_), then
\* images_[addr] = {addr, data, attrs} for each part of the bundle.
SetFirmware ==
  /\ ~LockHeld
  /\ UNCHANGED <<total, parse>>
  /\ LET r == setFirmware(images_, OtherFirmware) IN
       /\ images_' = r.images
       /\ loaded' = [bundle |-> OtherFirmware, status |-> r.status]
  /\ UNCHANGED <<pc, flashSize_, options, progress_, flashImages, idx,
                 status, done, cmds, sanity, dedupResp, romFailsLeft>>

\* The flasher of ReconfigConfig before run() is called.
InitConcurrent ==
  /\ Init
  /\ images_ = ReconfigConfig.images
  /\ flashSize_ = ReconfigConfig.flashSize
  /\ override_flash_params_ = ReconfigConfig.override
  /\ ~erase_chip_ /\ ~merge_flash_filesystem_ /\ ~minimize_writes_
  /\ romFailsLeft = ReconfigConfig.romFails

NextConcurrent == Next \/ SetOption \/ SetFirmware

\* run() on the worker thread, reconfiguration on another thread.
SpecConcurrent == InitConcurrent /\ [][NextConcurrent]_vars

\* ------------------------------------------------ setFirmware, then run

\* The parts of the bundles: a boot image at 0, an application at 4096,
\* another image for 0, a part without addr, a part whose addr is no
\* number, and a part for 8192 whose source cannot be read.
BundleParts ==
  { FwPart("boot", Variant("string", <<"0">>), "",
           Readable(4096, 233, "fw.boot")),
    FwPart("app", Variant("string", <<"4", "0", "9", "6">>), "",
           Readable(4096, 0, "fw.app")),
    FwPart("boot.b", Variant("string", <<"0">>), "",
           Readable(4096, 233, "fw.boot.b")),
    FwPart("noaddr", Variant("invalid", <<>>), "",
           Readable(4096, 0, "fw.noaddr")),
    FwPart("badaddr", Variant("string", <<"f", "s">>), "",
           Readable(4096, 0, "fw.badaddr")),
    FwPart("lost", Variant("string", <<"8", "1", "9", "2">>), "",
           Unreadable) }

\* The bundles: one or two parts (the same part twice included), in the
\* order of fw->parts().
Bundles ==
  {<<p>> : p \in BundleParts} \cup
  {<<p, q>> : p \in BundleParts, q \in BundleParts}

\* The caller loads a bundle into the flasher before it calls run().
LoadFirmware ==
  /\ pc = "idle"
  /\ \E b \in Bundles :
       LET r == setFirmware(images_, b) IN
       /\ images_' = r.images
       /\ loaded' = [bundle |-> b, status |-> r.status]
  /\ UNCHANGED <<pc, flashSize_, options, progress_, flashImages, idx,
                 status, done, cmds, sanity, dedupResp, romFailsLeft, total,
                 parse>>

\* The flasher as constructed, flash size given, in front of a device that
\* fails one ROM handshake.
InitFirmware ==
  /\ pc = "idle"
  /\ images_ = EmptyMap
  /\ flashSize_ = 524288
  /\ override_flash_params_ = -1
  /\ erase_chip_ = FALSE
  /\ merge_flash_filesystem_ = FALSE
  /\ minimize_writes_ = FALSE
  /\ flashing_port_name_ = ""
  /\ spiffs_offset_ = 8192
  /\ spiffs_size_ = 4096
  /\ progress_ = 0
  /\ flashImages = EmptyMap
  /\ idx = 0
  /\ status = "none"
  /\ done = <<>>
  /\ cmds = <<>>
  /\ sanity = NoSanity
  /\ dedupResp = EmptyMap
  /\ romFailsLeft = 1
  /\ total = 0
  /\ loaded = NoLoad
  /\ parse = NoParse

NextFirmware == LoadFirmware \/ Next

\* setFirmware any number of times, then run().
SpecFirmware == InitFirmware /\ [][NextFirmware]_vars

\* ------------------------------------------- the flash params functions

\* Single parts, by their characters: 544, 0x220, 0X1234, 0x10220, -1, +7,
\* 0220 (octal), 0, 2147483647, 2147483648, -2147483648, -2147483649,
\* 0xffffffff, and the non-numbers "", dio, 0x, 08, 12a, -.
NumberTexts ==
  { <<"5", "4", "4">>, <<"0", "x", "2", "2", "0">>,
    <<"0", "X", "1", "2", "3", "4">>,
    <<"0", "x", "1", "0", "2", "2", "0">>, <<"-", "1">>, <<"+", "7">>,
    <<"0", "2", "2", "0">>, <<"0">>,
    <<"2", "1", "4", "7", "4", "8", "3", "6", "4", "7">>,
    <<"2", "1", "4", "7", "4", "8", "3", "6", "4", "8">>,
    <<"-", "2", "1", "4", "7", "4", "8", "3", "6", "4", "8">>,
    <<"-", "2", "1", "4", "7", "4", "8", "3", "6", "4", "9">>,
    <<"0", "x", "f", "f", "f", "f", "f", "f", "f", "f">>,
    <<>>, <<"d", "i", "o">>, <<"0", "x">>, <<"0", "8">>,
    <<"1", "2", "a">>, <<"-">> }

\* The keys tried as a mode, a size and a frequency: those of the maps and
\* some that are in none.
ModeNames == DOMAIN flashMode \cup {"sio", ""}

SizeNames == DOMAIN flashSize \cup {<<1, "">>, <<64, "">>, <<4, "-c1">>}

FreqNames == DOMAIN flashFreq \cup {"80", "4m"}

\* The strings passed to flashParamsFromString, as lists of parts.
ParamLists ==
  {<<m, z, f>> : m \in ModeNames, z \in SizeNames, f \in FreqNames}

\* Lists of two and of four parts.
OddLists ==
  {<<m, f>> : m \in DOMAIN flashMode, f \in DOMAIN flashFreq} \cup
  {<<m, f, m, f>> : m \in DOMAIN flashMode, f \in DOMAIN flashFreq}

InitParams ==
  /\ pc = "params"
  /\ images_ = EmptyMap
  /\ flashSize_ = 0
  /\ override_flash_params_ = -1
  /\ erase_chip_ = FALSE
  /\ merge_flash_filesystem_ = FALSE
  /\ minimize_writes_ = TRUE
  /\ flashing_port_name_ = ""
  /\ spiffs_offset_ = 8192
  /\ spiffs_size_ = 4096
  /\ progress_ = 0
  /\ flashImages = EmptyMap
  /\ idx = 0
  /\ status = "none"
  /\ done = <<>>
  /\ cmds = <<>>
  /\ sanity = NoSanity
  /\ dedupResp = EmptyMap
  /\ romFailsLeft = 0
  /\ total = 0
  /\ loaded = NoLoad
  /\ \/ \E t \in NumberTexts : parse = [NoParse EXCEPT !.s = <<t>>]
     \/ \E l \in ParamLists : parse = [NoParse EXCEPT !.s = l]
     \/ \E l \in OddLists : parse = [NoParse EXCEPT !.s = l]

\* flashParamsFromString(s) is called.
ParseFlashParams ==
  /\ parse.r = NotCalled
  /\ parse' = [parse EXCEPT !.r = flashParamsFromString(parse.s)]
  /\ UNCHANGED <<pc, images_, flashSize_, options, progress_, flashImages,
                 idx, status, done, cmds, sanity, dedupResp, romFailsLeft,
                 total, loaded>>

\* flashSizeFromParams is called with the word flashParamsFromString
\* returned.
SizeFromParams ==
  /\ parse.r.ok
  /\ parse.size = NotCalled
  /\ parse' = [parse EXCEPT !.size = flashSizeFromParams(parse.r.value)]
  /\ UNCHANGED <<pc, images_, flashSize_, options, progress_, flashImages,
                 idx, status, done, cmds, sanity, dedupResp, romFailsLeft,
                 total, loaded>>

NextParams == ParseFlashParams \/ SizeFromParams

SpecParams == InitParams /\ [][NextParams]_vars

\* ================================================================ claims

\* Whether [a1, a1 + l1) and [a2, a2 + l2) have a byte in common.
RangesIntersect(a1, l1, a2, l2) ==
  l1 > 0 /\ l2 > 0 /\ a1 < a2 + l2 /\ a2 < a1 + l1

\* sanityCheckImages has just returned: images_ and flashSize_ are the ones
\* it was called with.
Sanitized ==
  \/ pc = "patch"
  \/ pc = "done" /\ sanity.code = "INVALID_ARGUMENT"

AnyOverlap(imgs) ==
  \E a, b \in DOMAIN imgs :
    a # b /\ RangesIntersect(a, imgs[a].data.len, b, imgs[b].data.len)

\* C1: when sanityCheckImages returns OK no two images of the whole set,
\* adjacent in address order or not, have intersecting ranges; if any two
\* overlap it returns INVALID_ARGUMENT (and so does the run).
C1_OverlapSound ==
  Sanitized =>
    /\ sanity.code = "OK" => ~AnyOverlap(images_)
    /\ AnyOverlap(images_) =>
         sanity.code = "INVALID_ARGUMENT" /\ status = "INVALID_ARGUMENT"

\* C1 witness: a set of three images rejected for an overlap, in which the
\* first and the third image (not adjacent in address order) overlap.
C1_Witness ==
  /\ Sanitized
  /\ sanity.reason = "overlap"
  /\ \E a, b, c \in DOMAIN images_ :
       /\ a < b /\ b < c
       /\ RangesIntersect(a, images_[a].data.len, c, images_[c].data.len)

\* An image that reaches into [flashSize - 16384, flashSize) and is not a
\* sys_params image starting at flashSize - 16384.
SysParamsIntruder(imgs, flashSz, k) ==
  /\ RangesIntersect(k, imgs[k].data.len,
                     flashSz - 16384, 16384)
  /\ ~(imgs[k].attrs.type = "sys_params" /\ k = flashSz - 16384)

\* C2: after sanityCheckImages returned OK the only image that intersects
\* the system params region is a sys_params image starting exactly at
\* flashSize - 16384; any other image intersecting it gives
\* INVALID_ARGUMENT.
C2_SysParamsRegion ==
  Sanitized =>
    \A k \in DOMAIN images_ :
      SysParamsIntruder(images_, flashSize_, k) =>
        sanity.code = "INVALID_ARGUMENT" /\ status = "INVALID_ARGUMENT"

\* C2 witness: sanityCheckImages returned OK with a sys_params image in the region.
C2_Witness ==
  /\ pc = "patch"
  /\ \E k \in DOMAIN images_ :
       /\ images_[k].attrs.type = "sys_params"
       /\ k = flashSize_ - 16384
       /\ images_[k].data.len > 0

\* The image is at flashSize - 16384 after the step, key and addr field.
RelocatedTo(image, imgs, flashSz) ==
  /\ flashSz - 16384 \in DOMAIN imgs
  /\ imgs[flashSz - 16384] = [image EXCEPT !.addr = flashSz - 16384]
  /\ \A k \in DOMAIN imgs : imgs[k].addr = flashSz - 16384 => k = flashSz - 16384

SysParamsKeys(imgs) ==
  {k \in DOMAIN imgs : imgs[k].attrs.type = "sys_params"}

\* C3 as stated: every image of type sys_params, wherever it is, sits at
\* flashSize - 16384 after adjustSysParamsLocation.
C3_Original ==
  [][ pc = "adjust" /\ pc' = "sanity" =>
        \A k \in SysParamsKeys(images_) :
          RelocatedTo(images_[k], images_', flashSize_) ]_vars

\* C3 amended: if the image set holds exactly one image of type sys_params,
\* then after adjustSysParamsLocation that image sits at flashSize - 16384
\* (map key and addr field), and no other image has that address.
C3_Relocation ==
  [][ pc = "adjust" /\ pc' = "sanity"
      /\ Cardinality(SysParamsKeys(images_)) = 1 =>
        \A k \in SysParamsKeys(images_) :
          RelocatedTo(images_[k], images_', flashSize_) ]_vars

\* C3 witness: a sys_params image that the bundle had elsewhere is at
\* flashSize - 16384 after the step.
C3_Witness ==
  /\ pc = "sanity"
  /\ Cardinality(SysParamsKeys(images_)) = 1
  /\ \E k \in SysParamsKeys(images_) :
       /\ k = flashSize_ - 16384
       /\ images_[k].data.tag \in {"sys1", "sys2", "sys"}

\* dedupImages ran and every digest it asked for was answered.
Deduped ==
  /\ pc \in {"write", "verify", "boot", "done"}
  /\ DOMAIN dedupResp = DOMAIN images_
  /\ \A k \in DOMAIN dedupResp : dedupResp[k].ok

\* The planned writes that lie in the range of the image at k: from k up
\* to the next image.
Own(k) ==
  {a \in DOMAIN flashImages :
     a >= k /\ \A k2 \in DOMAIN images_ : k2 > k => a < k2}

\* The sectors of an image of n sectors that are not in S, as maximal runs:
\* the first sector of each run, and the last sector of the run from i.
RunStarts(n, S) == {i \in (0 .. n - 1) \ S : i = 0 \/ i - 1 \in S}

RunLast(n, S, i) ==
  CHOOSE j \in i .. n - 1 :
    /\ \A m \in i .. j : m \notin S
    /\ j = n - 1 \/ j + 1 \in S

\* The sub-image of the run from sector i: at addr + 4096 * i, the image's
\* bytes from 4096 * i up to the end of the run's last sector.
RunImage(image, S, i) ==
  LET n == (image.data.len + 4095) \div 4096
      upto == Min(image.data.len, (RunLast(n, S, i) + 1) * 4096)
  IN  [image EXCEPT !.addr = image.addr + 4096 * i,
                    !.data = DataMid(image.data, 4096 * i, upto - 4096 * i)]

\* The plan holds the original undivided image at k.
KeepsOriginal(k) ==
  Own(k) = {k} /\ flashImages[k] = images_[k]

\* The plan holds exactly the maximal runs of the sectors not in S.
WritesRuns(k, S) ==
  LET n == (images_[k].data.len + 4095) \div 4096 IN
  /\ Own(k) = {k + 4096 * i : i \in RunStarts(n, S)}
  /\ \A i \in RunStarts(n, S) :
       flashImages[k + 4096 * i] = RunImage(images_[k], S, i)

\* The bytes of the sectors of S: 4096 each, the last sector of the image
\* as long as it is.
SkippedBytes(len, S) ==
  LET n == (len + 4095) \div 4096 IN
  4096 * Cardinality(S) - (IF n - 1 \in S THEN n * 4096 - len ELSE 0)

VerifyCmds == SelectSeq(cmds, LAMBDA c : c.op = "digest")

\* verifyImages returned OK.
VerifyOK ==
  pc = "boot" \/ \E i \in 1 .. Len(cmds) : cmds[i].op = "bootFirmware"

\* A digest equal to the host's MD5 was reported for every image.
AllSame ==
  /\ Len(VerifyCmds) = Cardinality(DOMAIN images_)
  /\ \A i \in 1 .. Len(VerifyCmds) : VerifyCmds[i].r = "same"

\* C5: after all writes, digest(addr, len, 0) is asked for the images of
\* the image set (not for the dedup fragments), in turn; verification
\* succeeds iff a digest equal to md5(image.data) is reported for every
\* image, and the first mismatch ends the run with DATA_LOSS.
C5_VerifyLaw ==
  /\ \A i \in 1 .. Len(VerifyCmds) :
       /\ i <= Len(Keys(images_))
       /\ VerifyCmds[i].a = images_[Keys(images_)[i]].addr
       /\ VerifyCmds[i].n = images_[Keys(images_)[i]].data.len
  /\ \A i, j \in 1 .. Len(cmds) :
       cmds[i].op = "digest" /\ i < j => cmds[j].op # "write"
  /\ VerifyCmds # <<>> =>
       \A a \in DOMAIN flashImages :
         \E i \in 1 .. Len(cmds) :
           cmds[i].op = "write" /\ cmds[i].a = a /\ cmds[i].r = "ok"
  /\ VerifyOK => AllSame
  /\ AllSame /\ VerifyCmds # <<>> /\ pc # "verify" => VerifyOK
  /\ \A i \in 1 .. Len(VerifyCmds) :
       VerifyCmds[i].r # "same" =>
         /\ i = Len(VerifyCmds)
         /\ cmds[Len(cmds)] = VerifyCmds[i]
         /\ pc = "done" /\ done = <<FALSE>>
         /\ VerifyCmds[i].r = "diff" => status = "DATA_LOSS"

\* C5 witness: a run that wrote dedup fragments and whose two original
\* images were verified.
C5_Witness ==
  /\ pc = "boot"
  /\ DOMAIN flashImages # DOMAIN images_
  /\ Len(VerifyCmds) = 2
  /\ AllSame

\* Whether a command of that kind and result is among the first n.
Issued(op, r, n) ==
  \E j \in 1 .. n : cmds[j].op = op /\ cmds[j].r = r

Destructive(c) == c.op \in {"write", "eraseChip"}

\* C6: a write or eraseChip is issued only after rom.connect succeeded, the
\* stub connect succeeded, the flash size was resolved and
\* sanityCheckImages returned OK; a layout violation ends the run before
\* any write or erase.
C6_PipelineOrder ==
  /\ \A i \in 1 .. Len(cmds) :
       Destructive(cmds[i]) =>
         /\ Issued("rom.connect", "ok", i - 1)
         /\ Issued("flasher.connect", "ok", i - 1)
         /\ flashSize_ > 0
         /\ sanity.code = "OK"
  /\ sanity.code = "INVALID_ARGUMENT" =>
       /\ pc = "done" /\ status = "INVALID_ARGUMENT" /\ done = <<FALSE>>
       /\ \A i \in 1 .. Len(cmds) : ~Destructive(cmds[i])

\* C6 witness: a run whose flash size was detected erased the chip and
\* wrote an image.
C6_Witness ==
  /\ Issued("getFlashChipID", "ok", Len(cmds))
  /\ Issued("eraseChip", "ok", Len(cmds))
  /\ Issued("write", "ok", Len(cmds))

\* C7: the addresses passed to flasher.write in one run are strictly
\* ascending, for original images and for dedup fragments.
C7_WriteOrder ==
  \A i, j \in 1 .. Len(cmds) :
    cmds[i].op = "write" /\ cmds[j].op = "write" /\ i < j =>
      cmds[i].a < cmds[j].a

\* C7 witness: three writes, two of them fragments of one image.
C7_Witness ==
  /\ Deduped
  /\ \E k \in DOMAIN images_ : Cardinality(Own(k)) = 2
  /\ Cardinality({i \in 1 .. Len(cmds) : cmds[i].op = "write"}) = 3

\* C8: a failed flasher.write ends the run with UNAVAILABLE; no write, no
\* digest and no reboot command follows it.
C8_WriteFailureAborts ==
  \A i \in 1 .. Len(cmds) :
    cmds[i].op = "write" /\ cmds[i].r = "fail" =>
      /\ i = Len(cmds)
      /\ pc = "done" /\ status = "UNAVAILABLE" /\ done = <<FALSE>>

\* C8 witness: the second write of a plan of three failed.
C8_Witness ==
  /\ Len(WriteOrder(flashImages)) = 3
  /\ idx = 2
  /\ cmds # <<>>
  /\ cmds[Len(cmds)].op = "write" /\ cmds[Len(cmds)].r = "fail"

\* C9: each failed rom.connect is followed by exactly one {Retry, Cancel}
\* prompt; Cancel ends the run with UNAVAILABLE without the stub being
\* contacted; Retry is followed by rom.connect; the loop is left only by a
\* successful connect or by Cancel; the stub connect follows a
\* successful rom.connect.
C9_RomRetryLoop ==
  /\ \A i \in 1 .. Len(cmds) :
       /\ cmds[i].op = "rom.connect" /\ cmds[i].r = "fail" =>
            IF i = Len(cmds) THEN pc = "rom_prompt"
            ELSE cmds[i + 1].op = "prompt.rom"
       /\ cmds[i].op = "rom.connect" /\ cmds[i].r = "ok" =>
            \A j \in i + 1 .. Len(cmds) :
              cmds[j].op \notin {"rom.connect", "prompt.rom"}
       /\ cmds[i].op = "prompt.rom" =>
            /\ i > 1
            /\ cmds[i - 1].op = "rom.connect" /\ cmds[i - 1].r = "fail"
       /\ cmds[i].op = "prompt.rom" /\ cmds[i].a = 1 =>
            /\ i = Len(cmds)
            /\ pc = "done" /\ status = "UNAVAILABLE" /\ done = <<FALSE>>
       /\ cmds[i].op = "prompt.rom" /\ cmds[i].a = 0 =>
            IF i = Len(cmds) THEN pc = "rom"
            ELSE cmds[i + 1].op = "rom.connect"
       /\ cmds[i].op = "flasher.connect" =>
            /\ i > 1
            /\ cmds[i - 1].op = "rom.connect" /\ cmds[i - 1].r = "ok"
  /\ (\E i \in 1 .. Len(cmds) : cmds[i].op = "rom.connect")
     /\ pc \notin {"rom", "rom_prompt"} =>
       \/ Issued("rom.connect", "ok", Len(cmds))
       \/ cmds[Len(cmds)].op = "prompt.rom" /\ cmds[Len(cmds)].a = 1

\* C9 witness: two failed handshakes, two Retry answers, then the stub.
C9_Witness ==
  /\ Cardinality({i \in 1 .. Len(cmds) :
                    cmds[i].op = "prompt.rom" /\ cmds[i].a = 0}) = 2
  /\ Issued("flasher.connect", "ok", Len(cmds))

\* C10 as stated: after Cancel at the SPIFFS merge prompt the run ends with
\* an error and no image is written.
C10_MergeCancelEndsRun ==
  (\E i \in 1 .. Len(cmds) : cmds[i].op = "prompt.merge" /\ cmds[i].a = 0) =>
    /\ \A j \in 1 .. Len(cmds) : cmds[j].op # "write"
    /\ pc = "done" => done = <<FALSE>>

\* C11 as stated: whenever the SPIFFS merge step fails, by a failed read of
\* the device's file system or by a failed mergeFilesystems, the user is
\* prompted with {Cancel, Write new, Keep old} before any image is written.
\* (mergeFilesystems failing shows in the log only as the prompt; the read
\* failing is the command "read" with result "fail".)
C11_MergeFailurePrompts ==
  \A i, j \in 1 .. Len(cmds) :
    /\ cmds[i].op = "read" /\ cmds[i].r = "fail"
    /\ i < j /\ cmds[j].op = "write"
    => \E k \in i + 1 .. j - 1 : cmds[k].op = "prompt.merge"

\* C12 as stated: while run() is executing, a concurrent setOption,
\* setOptionsFromConfig or setFirmware waits until run() returns, so no
\* option value and no image read by the run changes under it: while the
\* lock is held the option fields change in no step.
C12_RunMutex ==
  [][LockHeld /\ LockHeld' => UNCHANGED options]_vars

\* The commands of that kind among the first n.
CountOf(op, r, n) ==
  Cardinality({j \in 1 .. n : cmds[j].op = op /\ cmds[j].r = r})

\* C13: bootFirmware() and rebootIntoFirmware() are issued only after
\* verification succeeded (every write succeeded and a matching digest was
\* reported for every image), bootFirmware() first and rebootIntoFirmware()
\* right after it, also when bootFirmware() returned an error; after a
\* failed write or a failed verification neither is issued.
C13_RebootStep ==
  /\ \A i \in 1 .. Len(cmds) :
       /\ cmds[i].op = "bootFirmware" =>
            /\ CountOf("digest", "same", i - 1) = Cardinality(DOMAIN images_)
            /\ \A j \in 1 .. i - 1 :
                 /\ cmds[j].op = "write" => cmds[j].r = "ok"
                 /\ cmds[j].op = "digest" => cmds[j].r = "same"
                 /\ cmds[j].op \notin {"bootFirmware", "rebootIntoFirmware"}
            /\ i < Len(cmds)
            /\ cmds[i + 1].op = "rebootIntoFirmware"
       /\ cmds[i].op = "rebootIntoFirmware" =>
            i > 1 /\ cmds[i - 1].op = "bootFirmware"
  /\ (\E j \in 1 .. Len(cmds) :
        \/ cmds[j].op = "write" /\ cmds[j].r # "ok"
        \/ cmds[j].op = "digest" /\ cmds[j].r # "same") =>
       \A i \in 1 .. Len(cmds) :
         cmds[i].op \notin {"bootFirmware", "rebootIntoFirmware"}
  /\ pc = "done" /\ status = "OK" => Issued("bootFirmware", "ok", Len(cmds))

\* C13 witness: bootFirmware() failed and rebootIntoFirmware() was issued
\* after it.
C13_Witness ==
  /\ Len(cmds) >= 2
  /\ cmds[Len(cmds) - 1].op = "bootFirmware"
  /\ cmds[Len(cmds) - 1].r = "fail"
  /\ cmds[Len(cmds)].op = "rebootIntoFirmware"
  /\ Len(VerifyCmds) = 2

\* The last command issued.
LastCmd(c) == c[Len(c)]

\* C14: the step that resolves the flash size takes (a) the size of the
\* flash-params override when one is set, whatever the flash-size option
\* says; else (b) the flash-size option when it is not 0, and the chip is
\* not asked; else (c) the size derived from getFlashChipID(); else
\* (d) 524288.  Relocation and validation use that size.
C14_FlashSizePriority ==
  [][/\ pc = "size" /\ pc' = "adjust" =>
          IF override_flash_params_ >= 0
          THEN /\ flashSize_' =
                    flashSizeById[(override_flash_params_ % 256) \div 16]
               /\ cmds' = cmds
          ELSE IF flashSize_ # 0
          THEN flashSize_' = flashSize_ /\ cmds' = cmds
          ELSE /\ Len(cmds') = Len(cmds) + 1
               /\ LastCmd(cmds').op = "getFlashChipID"
               /\ flashSize_' =
                    IF /\ LastCmd(cmds').r = "ok"
                       /\ SizeFromChipID(LastCmd(cmds').a) # 0
                    THEN SizeFromChipID(LastCmd(cmds').a)
                    ELSE 524288
     /\ pc \in {"adjust", "sanity"} => flashSize_' = flashSize_
     /\ pc = "adjust" =>
          images_' = adjustSysParamsLocation(images_, flashSize_)
     /\ pc = "sanity" =>
          sanity' = sanityCheckImages(images_, flashSize_, 4096)
    ]_vars

\* C14 witness: with an override for 1 MiB set, the run validates the
\* images against 1 MiB without having asked the chip.
C14_Witness ==
  /\ pc = "sanity"
  /\ override_flash_params_ = 544
  /\ flashSize_ = 1048576
  /\ ~Issued("getFlashChipID", "ok", Len(cmds))
  /\ ~Issued("getFlashChipID", "fail", Len(cmds))

\* The flash size the rule of C15 gives for a chip ID of 24 useful bits
\* mfg << 16 | type << 8 | capacity (id[2], id[3], id[4]; id[1] is 0).
SizeByLow24(id) ==
  LET mfg == id[2]
      capacity == id[4]
  IN  IF mfg # 0 /\ capacity >= 19 /\ capacity < 32
      THEN 2 ^ capacity
      ELSE 524288

\* C15 as stated: for a chip ID laid out as mfg << 16 | type << 8 |
\* capacity the detected flash size is 1 << capacity when 0x13 <= capacity
\* < 0x20 and mfg # 0, and 524288 in every other case, a failed
\* getFlashChipID included.
C15_ChipIDRule ==
  pc = "adjust" /\ cmds # <<>> /\ LastCmd(cmds).op = "getFlashChipID" =>
    IF LastCmd(cmds).r = "ok"
    THEN LastCmd(cmds).a[1] = 0 =>
           flashSize_ = SizeByLow24(LastCmd(cmds).a)
    ELSE flashSize_ = 524288

\* C16 as stated: a flash-params override whose size field
\* (params & 0xff) >> 4 is not one of the ids 0..7 is rejected with
\* INVALID_ARGUMENT, when the option is set or when the run resolves the
\* flash size; it never reaches the patch or write steps.  The override is
\* set here, so the run that has connected to the stub and is past the
\* flash size step has ended with INVALID_ARGUMENT.
C16_UnknownSizeIdRejected ==
  /\ override_flash_params_ >= 0
  /\ (override_flash_params_ % 256) \div 16 \notin 0 .. 7
  /\ Issued("flasher.connect", "ok", Len(cmds))
  /\ pc # "size"
  => pc = "done" /\ status = "INVALID_ARGUMENT" /\ done = <<FALSE>>

\* The flash params word for dio (2), a flash of sz bytes (its size id in
\* the table of size ids, sizes above 4 MiB counted as 4 MiB) and 40m (0).
PackedDio40m(sz) ==
  LET capped == IF sz > 4194304 THEN 4194304 ELSE sz
      sizeId == CHOOSE id \in 0 .. 4 : flashSizeById[id] = capped
  IN  2 * 256 + sizeId * 16 + 0

\* The flash params the patch is to use.
ParamsInUse ==
  IF override_flash_params_ >= 0 THEN override_flash_params_
  ELSE PackedDio40m(flashSize_)

\* The image at 0 is absent, shorter than 4 bytes, or holds the flash
\* params of this state in its bytes [2] and [3].
BootImagePatched(imgs) ==
  0 \in DOMAIN imgs /\ imgs[0].data.len >= 4 /\ imgs[0].data.off = 0 =>
    /\ imgs[0].data.head[3] = (ParamsInUse \div 256) % 256
    /\ imgs[0].data.head[4] = ParamsInUse % 256

\* C17: the patch step sets bytes [2] and [3] of an image at 0 of length
\* >= 4 to (params >> 8) & 0xff and params & 0xff, params being the
\* override if set and else the word for dio, the flash size in use, 40m;
\* it changes no other byte and no other image; and the bytes are still so
\* in the image set and in the plan when the images are written.
C17_FlashParamsPatch ==
  [][/\ pc = "patch" /\ pc' = "merge" =>
          /\ DOMAIN images_' = DOMAIN images_
          /\ \A k \in DOMAIN images_ :
               /\ images_'[k].addr = images_[k].addr
               /\ images_'[k].attrs = images_[k].attrs
               /\ images_'[k].data.len = images_[k].data.len
               /\ images_'[k].data.tag = images_[k].data.tag
               /\ images_'[k].data.off = images_[k].data.off
               /\ \A b \in 1 .. Len(images_[k].data.head) :
                    (k # 0 \/ b \notin {3, 4} \/ images_[k].data.len < 4) =>
                      images_'[k].data.head[b] = images_[k].data.head[b]
     /\ pc' \in {"merge", "plan", "write", "verify", "boot"} =>
          BootImagePatched(images_)'
     /\ pc' \in {"write", "verify", "boot"} =>
          BootImagePatched(flashImages)'
    ]_vars

\* C17 witness: a size of 1 MiB was detected and the boot image holds
\* 0x02, 0x20 (dio, 8m, 40m) while it is written.
C17_Witness ==
  /\ pc = "write"
  /\ override_flash_params_ < 0
  /\ flashSize_ = 1048576
  /\ Issued("getFlashChipID", "ok", Len(cmds))
  /\ images_[0].data.head = <<233, 0, 2, 32>>
  /\ Issued("write", "ok", Len(cmds))

\* C18 as stated: whenever sanityCheckImages returns OK and an image is
\* present at address 0, that image begins with byte 0xE9; an image at 0
\* with no bytes does not and is to be rejected.
C18_MagicByte ==
  pc = "patch" /\ sanity.code = "OK" /\ 0 \in DOMAIN images_ =>
    /\ images_[0].data.len >= 1
    /\ images_[0].data.head[1] = 233

\* Every image starts on a multiple of sectorSize, below flashSz, and ends
\* at or below flashSz.
WithinBounds(imgs, flashSz, sectorSize) ==
  \A k \in DOMAIN imgs :
    /\ imgs[k].addr = k
    /\ k % sectorSize = 0
    /\ k < flashSz
    /\ k + imgs[k].data.len <= flashSz

\* C19: when sanityCheckImages(flashSize, sectorSize) returns OK, every
\* image's addr is a multiple of sectorSize, addr < flashSize and
\* addr + len <= flashSize; an image set with an image violating one of
\* these is rejected with INVALID_ARGUMENT.
C19_PerImageBounds ==
  [][pc = "sanity" =>
       /\ sanity'.code = "OK" =>
            pc' = "patch" /\ WithinBounds(images_, flashSize_, 4096)
       /\ ~WithinBounds(images_, flashSize_, 4096) =>
            /\ sanity'.code = "INVALID_ARGUMENT"
            /\ pc' = "done" /\ status' = "INVALID_ARGUMENT"
            /\ done' = <<FALSE>>
    ]_vars

\* C19 witness: an image that starts below the end of the flash and ends
\* beyond it was rejected, no other image being out of bounds.
C19_Witness ==
  /\ pc = "done" /\ sanity.code = "INVALID_ARGUMENT"
  /\ sanity.reason = "fit"
  /\ \E k \in DOMAIN images_ :
       /\ k % 4096 = 0 /\ k < flashSize_
       /\ k + images_[k].data.len > flashSize_
       /\ WithinBounds([j \in DOMAIN images_ \ {k} |-> images_[j]],
                       flashSize_, 4096)
       /\ Cardinality(DOMAIN images_) = 3

\* len rounded up to a multiple of 4096.
RoundUp4096(len) == ((len + 4095) \div 4096) * 4096

\* C20: every flasher.write(addr, data, erase) of a run has erase = true,
\* addr a multiple of 4096 and a data length that is a multiple of 4096,
\* data being the planned image's bytes followed by fewer than 4096 zero
\* bytes; the padded ranges of distinct planned images, originals or dedup
\* fragments, do not overlap.
C20_WritePreconditions ==
  /\ \A i \in 1 .. Len(cmds) :
       cmds[i].op = "write" =>
         /\ cmds[i].erase = TRUE
         /\ cmds[i].a % 4096 = 0
         /\ cmds[i].n % 4096 = 0
         /\ cmds[i].a \in DOMAIN flashImages
         /\ cmds[i].data = flashImages[cmds[i].a].data
         /\ cmds[i].n >= cmds[i].data.len
         /\ cmds[i].n - cmds[i].data.len < 4096
  /\ \A i, j \in 1 .. Len(cmds) :
       cmds[i].op = "write" /\ cmds[j].op = "write" /\ i # j =>
         ~RangesIntersect(cmds[i].a, cmds[i].n, cmds[j].a, cmds[j].n)
  /\ pc \in {"write", "verify", "boot"} =>
       \A k1, k2 \in DOMAIN flashImages :
         k1 < k2 => k1 + RoundUp4096(flashImages[k1].data.len) <= k2

\* C20 witness: two dedup fragments of one image were written, the second
\* one padded with zero bytes up to the sector.
C20_Witness ==
  /\ Deduped
  /\ \E i, j \in 1 .. Len(cmds) :
       /\ i < j
       /\ cmds[i].op = "write" /\ cmds[i].r = "ok"
       /\ cmds[j].op = "write" /\ cmds[j].r = "ok"
       /\ cmds[j].a \notin DOMAIN images_
       /\ cmds[j].n > cmds[j].data.len
       /\ \E k \in DOMAIN images_ : {cmds[i].a, cmds[j].a} \subseteq Own(k)

\* The values of the progress notifications emitted so far, in order.
ProgressValues ==
  LET ps == SelectSeq(cmds, LAMBDA c : c.op = "progress")
  IN  [i \in 1 .. Len(ps) |-> ps[i].a]

\* C21 as stated: the emitted progress(bytes) values never decrease, on
\* every path, a failed read of the device's file system during the merge
\* included.
C21_ProgressMonotonic ==
  \A i, j \in 1 .. Len(ProgressValues) :
    i < j => ProgressValues[i] <= ProgressValues[j]

\* C22 as stated: on a successful run the final progress counter equals
\* totalBytes() as reported before the run, and the counter never exceeds
\* that total.
C22_ProgressTotal ==
  pc # "idle" =>
    /\ progress_ <= total
    /\ pc = "done" /\ done = <<TRUE>> => progress_ = total

\* The parts of a list of three are keys of the three maps.
LegalParams(l) ==
  /\ Len(l) = 3
  /\ l[1] \in DOMAIN flashMode
  /\ l[2] \in DOMAIN flashSize
  /\ l[3] \in DOMAIN flashFreq

\* C23: flashParamsFromString returns for a legal mode,size,freq the word
\* whose bits 8 and up are the mode, bits 4..7 the size and bits 0..3 the
\* frequency, of the documented enumerations; for a number the low 16 bits
\* of it; INVALID_ARGUMENT for three parts one of which is in no
\* enumeration and for a number of parts that is neither 1 nor 3; and
\* flashSizeFromParams of the word of a legal triple is the flashSizeById
\* entry of its size.
C23_FlashParamsParse ==
  parse.r # NotCalled =>
    LET l == parse.s
        r == parse.r
    IN  /\ LegalParams(l) =>
             /\ r.ok
             /\ r.value \div 256 = flashMode[l[1]]
             /\ (r.value \div 16) % 16 = flashSize[l[2]]
             /\ r.value % 16 = flashFreq[l[3]]
             /\ parse.size # NotCalled =>
                  parse.size = StatusOK(flashSizeById[flashSize[l[2]]])
        /\ Len(l) = 3 /\ ~LegalParams(l) => r = StatusErr("INVALID_ARGUMENT")
        /\ Len(l) \notin {1, 3} => r = StatusErr("INVALID_ARGUMENT")
        /\ Len(l) = 1 /\ toInt(l[1]).ok =>
             /\ r.ok
             /\ r.value \in 0 .. 65535
             /\ (toInt(l[1]).value - r.value) % 65536 = 0
        /\ flashMode = [qio |-> 0, qout |-> 1, dio |-> 2, dout |-> 3]
        /\ \A n \in {2, 4, 8, 16, 32} :
             flashSizeById[flashSize[<<n, "">>]] = n * 131072

\* C23 witness: "dout,32m-c2,80m" was parsed to 0x37f and its size found.
C23_Witness ==
  /\ parse.s = <<"dout", <<32, "-c2">>, "80m">>
  /\ parse.r = StatusOK(895)
  /\ parse.size = StatusOK(4194304)

\* The flash params word in bytes [2] and [3] of the image at 0.
BootWord(imgs) == imgs[0].data.head[3] * 256 + imgs[0].data.head[4]

\* C24 as stated: with no flash params override and an image of length >= 4
\* at 0, for every flash size the run resolved (given, detected or the
\* default) the patch step does not fail and stores a word with mode dio
\* (2), frequency 40m (0) and a size id whose flashSizeById entry is
\* min(flashSize, 4 MiB).
C24_AutoParamsValid ==
  [][/\ pc = "patch"
     /\ override_flash_params_ < 0
     /\ 0 \in DOMAIN images_ /\ images_[0].data.len >= 4
     => /\ pc' = "merge"
        /\ BootWord(images_') \div 256 = 2
        /\ BootWord(images_') % 16 = 0
        /\ LET id == (BootWord(images_') % 256) \div 16
           IN  /\ id \in DOMAIN flashSizeById
               /\ flashSizeById[id] = Min(flashSize_, kMaxParamsFlashSize)
    ]_vars

\* The positions of the commands op in the log.
Positions(op) == {i \in 1 .. Len(cmds) : cmds[i].op = op}

\* C25: with esp8266-flash-erase-chip set, eraseChip() is issued at most
\* once, after sanityCheckImages returned OK and after the read of the
\* device's file system if there is one, and before every write; no dedup
\* digest is requested; the plan is the image set and each write is a whole
\* image of it, all of them once the write loop has ended; after a failed
\* eraseChip() no write is issued and the run has ended with an error.
C25_EraseChipPath ==
  erase_chip_ =>
    /\ Cardinality(Positions("eraseChip")) <= 1
    /\ Positions("digest.sectors") = {}
    /\ \A e \in Positions("eraseChip") :
         /\ sanity.code = "OK"
         /\ \A i \in Positions("read") : i < e
         /\ \A i \in Positions("write") : e < i
         /\ cmds[e].r = "fail" =>
              /\ Positions("write") = {}
              /\ pc = "done" /\ done = <<FALSE>>
    /\ Positions("write") # {} => Issued("eraseChip", "ok", Len(cmds))
    /\ pc \in {"write", "verify", "boot"} =>
         /\ Issued("eraseChip", "ok", Len(cmds))
         /\ flashImages = images_
    /\ \A i \in Positions("write") :
         /\ cmds[i].a \in DOMAIN images_
         /\ cmds[i].data = images_[cmds[i].a].data
    /\ pc \in {"verify", "boot"} =>
         /\ {cmds[i].a : i \in Positions("write")} = DOMAIN images_
         /\ Cardinality(Positions("write")) = Cardinality(DOMAIN images_)

\* C25 witness: the chip was erased after the device's file system was read
\* with minimize_writes_ set, and two images have been written.
C25_Witness ==
  /\ erase_chip_ /\ minimize_writes_ /\ merge_flash_filesystem_
  /\ Positions("read") # {}
  /\ Issued("eraseChip", "ok", Len(cmds))
  /\ Cardinality(Positions("write")) >= 2
  /\ pc = "verify"

\* The answer given at the merge prompt was answer.
Answered(c, answer) ==
  \E i \in 1 .. Len(c) : c[i].op = "prompt.merge" /\ c[i].a = answer

\* The device's file system was read and no prompt followed: the merge
\* succeeded.
MergeSucceeded(c) ==
  /\ \E i \in 1 .. Len(c) : c[i].op = "read" /\ c[i].r = "ok"
  /\ \A i \in 1 .. Len(c) : c[i].op # "prompt.merge"

\* The file system image the firmware bundles of the inputs ship.
ShippedFS == Part(8192, 4096, 0, "", "fs")

MergePhaseFailed(c) ==
  \/ \E i \in 1 .. Len(c) : c[i].op = "read" /\ c[i].r = "fail"
  \/ Answered(c, 0)

\* C27 as stated: a run() that returns emits exactly one done(text, ok); no
\* progress notification follows it; and ok is true iff every phase, the
\* SPIFFS merge and bootFirmware() included, returned OK.
C27_DoneNotification ==
  [][/\ Len(done') <= 1
     /\ pc' = "done" <=> Len(done') = 1
     /\ pc = "done" => cmds' = cmds /\ done' = done
     /\ pc' = "done" =>
          (done'[1] <=> /\ Issued("bootFirmware", "ok", Len(cmds))'
                        /\ ~MergePhaseFailed(cmds'))
    ]_vars

\* The successful writes of the log that cover the byte at address a, the
\* '\x00' bytes appended to the data included.
WritesCovering(a) ==
  {w \in 1 .. Len(cmds) :
     /\ cmds[w].op = "write" /\ cmds[w].r = "ok"
     /\ cmds[w].a <= a /\ a < cmds[w].a + cmds[w].n}

\* The last of a non-empty set of positions.
LastOf(ws) == CHOOSE w \in ws : \A v \in ws : v <= w

\* The device holds the bytes of sector i of the image at k: the last write
\* that covers the sector wrote them; or no write covers it and the sector
\* is one whose digest the device reported equal to the host's, which is
\* taken to mean that it held the image's bytes already.
SectorHoldsImage(k, i) ==
  LET a == k + i * kFlashSectorSize
      ws == WritesCovering(a)
      n == BlockLen(images_[k].data, i)
  IN  IF ws = {}
      THEN /\ k \in DOMAIN dedupResp
           /\ dedupResp[k].ok
           /\ i \in dedupResp[k].S
      ELSE LET w == cmds[LastOf(ws)]
           IN  DataMid(w.data, a - w.a, n) =
                 DataMid(images_[k].data, i * kFlashSectorSize, n)

\* C28: with minimize_writes_ on and no chip erase, once the plan of
\* dedupImages is written the device holds image.data over the range of
\* every image of the image set, sector by sector, given that a sector with
\* a matching digest held the image's bytes; and every image of the plan
\* lies inside the range of an image of the set and its data is the slice of
\* that image's data at offset (fragment.addr - image.addr).
C28_DedupRefinesFullWrite ==
  ~erase_chip_ /\ minimize_writes_ =>
    /\ pc \in {"verify", "boot"} =>
         \A k \in DOMAIN images_ :
           \A i \in 0 .. NumBlocks(images_[k].data) - 1 :
             SectorHoldsImage(k, i)
    /\ pc \in {"write", "verify", "boot"} =>
         \A a \in DOMAIN flashImages :
           \E k \in DOMAIN images_ :
             LET f == flashImages[a]
                 image == images_[k]
             IN  /\ f.addr = a
                 /\ k <= a
                 /\ a + f.data.len <= k + image.data.len
                 /\ f.data.len > 0
                 /\ f.data = DataMid(image.data, a - k, f.data.len)
                 /\ f.attrs = image.attrs

\* C28 witness: an image was cut into two fragments, both have been
\* written, and no write covers a sector between them.
C28_Witness ==
  /\ ~erase_chip_ /\ minimize_writes_
  /\ pc = "verify"
  /\ \E k \in DOMAIN images_ :
       /\ Cardinality(Own(k)) = 2
       /\ \A a \in Own(k) : WritesCovering(a) # {}
       /\ \E i \in 0 .. NumBlocks(images_[k].data) - 1 :
            WritesCovering(k + i * kFlashSectorSize) = {}

\* The positions of the failed digest requests of dedupImages.
FailedDigests(c) ==
  {i \in 1 .. Len(c) : c[i].op = "digest.sectors" /\ c[i].r = "fail"}

\* C29: when a digest request of dedupImages fails, no further digest is
\* requested, the plan is the image set itself, without the fragments
\* computed for earlier images, and the run goes on to write it.
C29_DigestFailureFallback ==
  [][pc = "plan" /\ FailedDigests(cmds') # {} =>
       /\ flashImages' = images_
       /\ images_' = images_
       /\ pc' = "write" /\ done' = <<>>
       /\ \A i \in FailedDigests(cmds') :
            \A j \in i + 1 .. Len(cmds') : cmds'[j].op # "digest.sectors"
    ]_vars

\* C29 witness: the digest of the second image failed after 64 KiB of the
\* first had been found on the device, and both images were written whole.
C29_Witness ==
  /\ pc = "verify"
  /\ Cardinality(DOMAIN images_) = 2
  /\ \E i \in FailedDigests(cmds) :
       /\ cmds[i].a # 0
       /\ \E j \in 1 .. i - 1 :
            cmds[j].op = "progress" /\ cmds[j].a >= kFlashBlockSize
  /\ \A k \in DOMAIN images_ :
       \E w \in 1 .. Len(cmds) :
         /\ cmds[w].op = "write" /\ cmds[w].r = "ok"
         /\ cmds[w].a = k /\ cmds[w].data = images_[k].data

\* C30 as stated: adjustSysParamsLocation changes nothing but the address
\* of a sys_params image: the number of images stays the same, and every
\* other image is still in the set with the same address, data and
\* attributes.
C30_RelocationFrame ==
  [][pc = "adjust" =>
       /\ Cardinality(DOMAIN images_') = Cardinality(DOMAIN images_)
       /\ \A k \in DOMAIN images_ :
            \/ k \in DOMAIN images_' /\ images_'[k] = images_[k]
            \/ /\ images_[k].attrs.type = kSystemParamsPartType
               /\ \E n \in DOMAIN images_' \ DOMAIN images_ :
                    images_'[n] = [images_[k] EXCEPT !.addr = n]
    ]_vars

\* The addresses of the parts of a bundle.
PartAddrs(b) == {toUInt(b[i].addr.v).value : i \in 1 .. Len(b)}

\* C31 as stated: a setFirmware that returns an error leaves the image set
\* as it was before the call; one that returns OK leaves an image for every
\* part address, made of a part with that address, and, called on an empty
\* image set, no other image.
C31_SetFirmwareAllOrNothing ==
  [][pc = "idle" /\ pc' = "idle" =>
       /\ loaded'.status # "OK" => images_' = images_
       /\ loaded'.status = "OK" =>
            /\ PartAddrs(loaded'.bundle) \subseteq DOMAIN images_'
            /\ images_ = EmptyMap =>
                 DOMAIN images_' = PartAddrs(loaded'.bundle)
            /\ \A a \in PartAddrs(loaded'.bundle) :
                 \E i \in 1 .. Len(loaded'.bundle) :
                   LET p == loaded'.bundle[i] IN
                   /\ toUInt(p.addr.v).value = a
                   /\ images_'[a] = Image(a, p.source.value, p.type)
    ]_vars


====
